---- MODULE Spec2Model ----
(***************************************************************************)
(* Workflow execution engine of Viona: the planner (topologicalSort), the  *)
(* run driver (executeWorkflow) and the node executors it dispatches to.   *)
(***************************************************************************)
EXTENDS Integers, Sequences, FiniteSets, TLC

(***************************************************************************)
(* Bounds of the model.                                                    *)
(***************************************************************************)
\* most nodes a stored workflow holds
MaxNodes == 3
\* most connections a stored workflow holds
MaxConns == 2
\* most times the runtime enters the handler for one run
MaxAttempts == 2
\* most nodes and connections a stored workflow with an AI agent holds
MaxAgentNodes == 4
MaxAgentConns == 3
\* most turns of history a first run is handed, and most runs in sequence
MaxPrior == 3
MaxRuns == 3
\* most tool calls the model makes in one generation
MaxToolSteps == 2

(***************************************************************************)
(* Node kinds and handle labels.                                           *)
(***************************************************************************)
TRIGGER_TYPES == {"MANUAL_TRIGGER", "GOOGLE_FORM_TRIGGER", "STRIPE_TRIGGER", "INITIAL"}

\* The stored nodes a workflow of the model is built from: one representative
\* per executor family that the source holds, two triggers, and a node whose
\* kind the registry does not hold.
NodeOrder == <<"T1", "T2", "H", "G", "M", "U">>

\* The same for runs that are entered again: two nodes of one executor.
ReplayOrder == <<"T1", "H", "H2", "G", "M", "U">>

\* The same for the planner, which reads no kind but the trigger kinds.
PlanOrder == <<"T1", "T2", "H", "G", "M">>

\* The same for workflows with an AI agent: the agent, its chat model and
\* memory sub-nodes, and a node that is a step of the flow or a tool.
AgentOrder == <<"T1", "A", "CM", "M", "H">>

TypeOf(id) ==
    CASE id = "T1" -> "MANUAL_TRIGGER"
      [] id = "T2" -> "INITIAL"
      [] id \in {"H", "H2"} -> "HTTP_REQUEST"
      [] id = "G" -> "GEMINI"
      [] id = "A" -> "AI_AGENT"
      [] id = "CM" -> "CHAT_MODEL"
      [] id = "O" -> "ORDER_MANAGER"
      [] id = "K" -> "CALCULATOR"
      [] id = "U" -> "UNREGISTERED"
      [] id = "D" -> "DISCORD"
      [] OTHER -> "MEMORY"

\* toInput labels the stored connections carry: the three spellings of a
\* main-flow label and a sub-node label (planner runs); full runs over any
\* graph carry the main-flow label, sub-node labels come with the agent
ToInputs == {"", "main", "target-1", "tool-target"}
RunToInputs == {"main"}

\* the connections the editor draws around an AI agent: the sub-node handles
\* of the agent take a chat model, a memory and tools, the flow goes on "main"
AgentConnections ==
    {[fromNodeId |-> "T1", toNodeId |-> "A", toInput |-> "main"],
     [fromNodeId |-> "T1", toNodeId |-> "H", toInput |-> "main"],
     [fromNodeId |-> "H", toNodeId |-> "A", toInput |-> "main"],
     [fromNodeId |-> "H", toNodeId |-> "A", toInput |-> "tool-target"],
     [fromNodeId |-> "A", toNodeId |-> "H", toInput |-> "main"],
     [fromNodeId |-> "CM", toNodeId |-> "A", toInput |-> "chat-model-target"],
     [fromNodeId |-> "M", toNodeId |-> "A", toInput |-> "memory-target"],
     [fromNodeId |-> "M", toNodeId |-> "A", toInput |-> "chat-model-target"]}

(***************************************************************************)
(* Sequence helpers.                                                       *)
(***************************************************************************)
Range(s) == {s[i] : i \in 1..Len(s)}

\* [...new Set(s)]: first occurrences, in order
RECURSIVE Dedup(_)
Dedup(s) ==
    IF s = <<>> THEN <<>>
    ELSE LET r == Dedup(SubSeq(s, 1, Len(s) - 1))
         IN IF s[Len(s)] \in Range(r) THEN r ELSE Append(r, s[Len(s)])

\* position of x in s (0 when absent)
IndexOf(s, x) ==
    IF x \in Range(s) THEN CHOOSE i \in 1..Len(s) : s[i] = x /\ \A j \in 1..(i - 1) : s[j] # x
    ELSE 0

SeqsUpTo(S, n) == UNION {[1..k -> S] : k \in 0..n}

(***************************************************************************)
(* toposort(edges) of the toposort package, as topologicalSort calls it:   *)
(* a depth-first visit of the edges' nodes from the last to the first,     *)
(* each finished node put in front of the result; a node met again on the  *)
(* current path is a "Cyclic dependency".                                  *)
(***************************************************************************)
uniqueNodes(edges) ==
    LET RECURSIVE Flat(_)
        Flat(k) == IF k = 0 THEN <<>> ELSE Flat(k - 1) \o <<edges[k][1], edges[k][2]>>
    IN Dedup(Flat(Len(edges)))

outgoingOf(edges, node) ==
    LET RECURSIVE Outs(_)
        Outs(k) ==
            IF k = 0 THEN <<>>
            ELSE IF edges[k][1] = node THEN Append(Outs(k - 1), edges[k][2]) ELSE Outs(k - 1)
    IN Dedup(Outs(Len(edges)))

RECURSIVE visit(_, _, _, _)
visit(edges, node, predecessors, st) ==
    IF st.cyclic THEN st
    ELSE IF node \in predecessors THEN [st EXCEPT !.cyclic = TRUE]
    ELSE IF node \in st.visited THEN st
    ELSE LET outgoing == outgoingOf(edges, node)
             RECURSIVE children(_, _)
             children(i, s) ==
                 IF i = 0 THEN s
                 ELSE children(i - 1, visit(edges, outgoing[i], predecessors \cup {node}, s))
             s1 == children(Len(outgoing), [st EXCEPT !.visited = @ \cup {node}])
         IN IF s1.cyclic THEN s1 ELSE [s1 EXCEPT !.sorted = <<node>> \o @]

toposort(edges) ==
    LET ns == uniqueNodes(edges)
        RECURSIVE loop(_, _)
        loop(i, st) == IF i = 0 THEN st ELSE loop(i - 1, visit(edges, ns[i], {}, st))
    IN loop(Len(ns), [sorted |-> <<>>, visited |-> {}, cyclic |-> FALSE])

(***************************************************************************)
(* The planner.                                                            *)
(***************************************************************************)
\* no filter on toInput
isAnyConnection(c) == TRUE

isMainConnection(c) == c.toInput = "" \/ c.toInput = "main" \/ c.toInput = "target-1"

mainConnectionsOf(conns) == SelectSeq(conns, isMainConnection)

\* adjacency.get(id) || []
adjacencyOf(mainConns, id) ==
    LET RECURSIVE Tos(_)
        Tos(k) ==
            IF k = 0 THEN <<>>
            ELSE IF mainConns[k].fromNodeId = id THEN Append(Tos(k - 1), mainConns[k].toNodeId)
                 ELSE Tos(k - 1)
    IN Tos(Len(mainConns))

isTrigger(n) == n.type \in TRIGGER_TYPES

\* the queue loop that collects the nodes reachable from the triggers
RECURSIVE reachableFrom(_, _, _)
reachableFrom(mainConns, queue, reachable) ==
    IF queue = <<>> THEN reachable
    ELSE LET current == Head(queue)
             rest == Tail(queue)
         IN IF current \in reachable THEN reachableFrom(mainConns, rest, reachable)
            ELSE LET seen == reachable \cup {current}
                     neighbors == adjacencyOf(mainConns, current)
                     fresh == SelectSeq(neighbors, LAMBDA x : x \notin seen)
                 IN reachableFrom(mainConns, rest \o fresh, seen)

idsOf(ns) == [i \in 1..Len(ns) |-> ns[i].id]

\* the pair built the wrong way round
edgeOfSwapped(c) == <<c.toNodeId, c.fromNodeId>>

\* .map((c) => [c.fromNodeId, c.toNodeId])
edgeOf(c) == <<c.fromNodeId, c.toNodeId>>

\* the cycle error swallowed
onCyclicIgnored(reachableNodes) == [ok |-> TRUE, plan |-> reachableNodes]

\* the catch of toposort's "Cyclic dependency": throw "Workflow contains a cycle"
onCyclic(reachableNodes) == [ok |-> FALSE, plan |-> <<>>]

\* [ok, plan]: ok = FALSE is the thrown "Workflow contains a cycle"
topologicalSort(ns, conns) ==
    LET mainConnections == mainConnectionsOf(conns)
        triggerNodes == SelectSeq(ns, isTrigger)
        reachable == reachableFrom(mainConnections, idsOf(triggerNodes), {})
        reachableNodes == SelectSeq(ns, LAMBDA n : n.id \in reachable)
        kept == SelectSeq(mainConnections,
                          LAMBDA c : c.fromNodeId \in reachable /\ c.toNodeId \in reachable)
        reachableEdges == [i \in 1..Len(kept) |-> edgeOf(kept[i])]
        sorted == toposort(reachableEdges)
        sortedNodeIds == Dedup(sorted.sorted)
        present == SelectSeq(sortedNodeIds, LAMBDA id : id \in Range(idsOf(reachableNodes)))
    IN IF Len(reachableEdges) = 0 THEN [ok |-> TRUE, plan |-> reachableNodes]
       ELSE IF sorted.cyclic THEN onCyclic(reachableNodes)
       ELSE [ok |-> TRUE,
             plan |-> [i \in 1..Len(present) |->
                          reachableNodes[IndexOf(idsOf(reachableNodes), present[i])]]]

(***************************************************************************)
(* State.                                                                  *)
(***************************************************************************)
VARIABLES
    nodes,          \* stored nodes of the workflow, in stored order
    connections,    \* stored connections of the workflow, in stored order
    event,          \* the "workflows/execute.workflow" event: workflowId, initialData
    pc,             \* the handler's position: start, loop, exec, done, failed
    sortedNodes,    \* the plan returned by the prepare-workflow step
    idx,            \* position in sortedNodes of the node the loop is at
    context,        \* the run context
    exec,           \* the executor that is awaited, or NoExec
    events,         \* the status records published so far, in order
    error,          \* the error the run failed with, or NoError
    trace,          \* executor starts and finishes of this attempt, in order
    memo,           \* the run's durable step state: step identity -> result
    seen,           \* steps this attempt has issued, per step name
    published,      \* publish calls this attempt has issued
    attempt,        \* how many times the handler was entered
    calls,          \* external work done so far: node, request, answer, attempt
    run,            \* how many runs of the workflow were started
    conversation,   \* the turns of the runs before this one, none left out
    db,             \* the organization the agent resolves, and the order rows
    steps,          \* the tool calls of the generation that is under way
    sessions        \* the saves of the editor and the sub-node discovery under way

vars == <<nodes, connections, event, pc, sortedNodes, idx, context, exec, events, error, trace,
          memo, seen, published, attempt, calls, run, conversation, db, steps, sessions>>

\* what the handler and the executors without tools do not write
stored == <<nodes, connections, event, run, conversation, db, steps, sessions>>

\* no organization is resolved and there are no orders
NoDb == [orgId |-> 0, orders |-> <<>>]

\* no save is under way and no agent is looking for its sub-nodes
NoDiscovery == [at |-> "none", agentFound |-> FALSE, connections |-> <<>>,
                chatModelNodeId |-> "", memoryNodeId |-> "", toolNodeIds |-> <<>>]
NoSessions == [saves |-> <<>>, discovery |-> NoDiscovery]

NoExec == [nodeId |-> "", at |-> "none"]
NoError == [name |-> "", message |-> ""]
EmptyContext == <<>>

StoredWorkflowId == "wf"

\* node.data per kind: "" is a field that is not configured
HttpData == {[variableName |-> "r", endpoint |-> "https://api/x", userPrompt |-> ""],
             [variableName |-> "r", endpoint |-> "", userPrompt |-> ""]}
GeminiData == {[variableName |-> "s", endpoint |-> "", userPrompt |-> "hello {{r}}"],
               [variableName |-> "s", endpoint |-> "", userPrompt |-> ""],
               [variableName |-> "s", endpoint |-> "", userPrompt |-> "{{#if"]}
PlainData == {[variableName |-> "", endpoint |-> "", userPrompt |-> ""]}
AgentData == {[variableName |-> "a", endpoint |-> "", userPrompt |-> "ask {{r}}"],
              [variableName |-> "a", endpoint |-> "", userPrompt |-> ""],
              [variableName |-> "a", endpoint |-> "", userPrompt |-> "{{#if"]}
\* a chat model sub-node: its provider, and the credential its node row names
\* ("bad" names a credential that does not decrypt, "gone" one that has no
\* row, "theirs" one of another organization, attached by attachCredentialToNode)
ChatModelData ==
    {[variableName |-> "", endpoint |-> "", userPrompt |-> "", provider |-> p, credentialId |-> c] :
        p \in {"gemini"}, c \in {"cred", "", "bad", "gone", "theirs"}}
    \cup {[variableName |-> "", endpoint |-> "", userPrompt |-> "",
           provider |-> "", credentialId |-> "cred"]}

DataOf(type) ==
    CASE type = "HTTP_REQUEST" -> HttpData
      [] type = "GEMINI" -> GeminiData
      [] type = "AI_AGENT" -> AgentData
      [] type = "CHAT_MODEL" -> ChatModelData
      [] OTHER -> PlainData

\* Handlebars.compile(t)(context) throws on a template it cannot parse
templateFails(t) == t = "{{#if"

\* what the endpoint of an HTTP_REQUEST node and the model of a GEMINI node answer
Responses == {[id |-> "abc"], [id |-> "xyz"]}
Texts == {"hi", "ho"}

\* event.data.initialData: not given, or a mapping
InitialDatas == {[given |-> FALSE, value |-> EmptyContext],
                 [given |-> TRUE, value |-> "r" :> [seed |-> "init"]]}

\* the stored workflows of the model
NodeListsOf(order) ==
    {SelectSeq(order, LAMBDA id : id \in S) :
        S \in {S \in SUBSET Range(order) : Cardinality(S) <= MaxNodes}}

ConnectionsOver(ids, labels) ==
    SeqsUpTo([fromNodeId : ids, toNodeId : ids, toInput : labels], MaxConns)

NodesOver(ids) ==
    {[i \in 1..Len(ids) |-> [id |-> ids[i], type |-> TypeOf(ids[i]), data |-> d[i]]] :
        d \in {d \in [1..Len(ids) -> HttpData \cup GeminiData \cup PlainData
                                          \cup AgentData \cup ChatModelData] :
                  \A i \in 1..Len(ids) : d[i] \in DataOf(TypeOf(ids[i]))}}

\* the same nodes, each with the one configuration its executor accepts
configuredData(id) ==
    CASE id = "H" -> [variableName |-> "r", endpoint |-> "https://api/x", userPrompt |-> ""]
      [] id = "H2" -> [variableName |-> "q", endpoint |-> "https://api/y", userPrompt |-> "",
                       method |-> "POST", body |-> "{\"id\":\"{{r.httpResponse.data.id}}\"}"]
      [] id = "G" -> [variableName |-> "s", endpoint |-> "", userPrompt |-> "hello {{r}}"]
      [] OTHER -> [variableName |-> "", endpoint |-> "", userPrompt |-> ""]

configuredNodes(ids) ==
    [i \in 1..Len(ids) |-> [id |-> ids[i], type |-> TypeOf(ids[i]), data |-> configuredData(ids[i])]]

Events == {[workflowId |-> StoredWorkflowId, initialData |-> d] : d \in InitialDatas}
              \cup {[workflowId |-> w, initialData |-> [given |-> FALSE, value |-> EmptyContext]] :
                       w \in {"", "gone"}}

StepNames == {"prepare-workflow", "manual-trigger", "http-request", "gemini-generate-text",
              "ai-agent-generate"}

\* the handler has not been entered
Fresh ==
    /\ pc = "start"
    /\ sortedNodes = <<>>
    /\ idx = 1
    /\ context = EmptyContext
    /\ exec = NoExec
    /\ events = <<>>
    /\ error = NoError
    /\ trace = <<>>
    /\ memo = <<>>
    /\ seen = [n \in StepNames |-> 0]
    /\ published = 0
    /\ attempt = 1
    /\ calls = <<>>
    /\ steps = <<>>

\* the first run of a workflow
Unrun ==
    /\ run = 1
    /\ conversation = <<>>
    /\ db = NoDb

\* a stored workflow of any node configuration, and an event
InitRun ==
    /\ event \in Events
    /\ \E ids \in NodeListsOf(NodeOrder) :
          /\ nodes \in NodesOver(ids)
          /\ connections \in ConnectionsOver(Range(ids), RunToInputs)
          \* a run that finds no workflow reads none of it
          /\ event.workflowId # StoredWorkflowId => ids = <<>>
    /\ Fresh
    /\ sessions = NoSessions
    /\ Unrun

\* initialData that carries a history under the default memory key
HistoryDatas == {[given |-> TRUE,
                  value |-> "chatHistory" :> [turns |-> <<[role |-> "user", content |-> <<"old">>]>>]]}

\* a stored workflow around an AI agent, as the editor draws it
InitAgent ==
    /\ event \in {[workflowId |-> StoredWorkflowId, initialData |-> d] :
                    d \in InitialDatas \cup HistoryDatas}
    /\ \E ids \in {SelectSeq(AgentOrder, LAMBDA id : id \in S) :
                     S \in {S \in SUBSET Range(AgentOrder) :
                               "A" \in S /\ Cardinality(S) <= MaxAgentNodes}} :
          /\ nodes \in NodesOver(ids)
          /\ connections \in SeqsUpTo({c \in AgentConnections :
                                          {c.fromNodeId, c.toNodeId} \subseteq Range(ids)},
                                      MaxAgentConns)
    /\ Fresh
    /\ sessions = NoSessions
    /\ Unrun

Init == InitRun \/ InitAgent

\* a stored workflow of any labelling, for the planner alone
InitPlan ==
    /\ event = [workflowId |-> StoredWorkflowId,
                initialData |-> [given |-> FALSE, value |-> EmptyContext]]
    /\ \E ids \in NodeListsOf(PlanOrder) :
          /\ nodes = configuredNodes(ids)
          /\ connections \in ConnectionsOver(Range(ids), ToInputs)
    /\ Fresh
    /\ sessions = NoSessions
    /\ Unrun

\* a stored workflow whose nodes are all configured, two of them HTTP requests
InitReplay ==
    /\ event \in {[workflowId |-> StoredWorkflowId, initialData |-> d] : d \in InitialDatas}
    /\ \E ids \in NodeListsOf(ReplayOrder) :
          /\ nodes = configuredNodes(ids)
          /\ connections \in ConnectionsOver(Range(ids), {"main"})
    /\ Fresh
    /\ sessions = NoSessions
    /\ Unrun

(***************************************************************************)
(* The durable step runtime, as the handler uses it: step.run(name, fn)    *)
(* runs fn once and keeps its result under the step's identity, the name   *)
(* and the number of earlier steps of that name in the attempt; an attempt *)
(* that meets the identity again gets the kept result. publish is kept the *)
(* same way.                                                               *)
(***************************************************************************)
stepId(name) == <<name, seen[name]>>

issued(name) == [seen EXCEPT ![name] = @ + 1]

\* fn is run whatever the step state holds
memoisedNever(id) == FALSE

\* the result of fn is not kept
forgotten(id, result) == memo

memoised(id) == id \in DOMAIN memo

remember(id, result) == (id :> result) @@ memo

\* the n-th publish of the attempt: sent, unless an earlier attempt has sent it
sent(evs, n, nodeId, status) ==
    IF n < Len(evs) THEN evs ELSE Append(evs, [nodeId |-> nodeId, status |-> status])

publish(nodeId, status) ==
    /\ events' = sent(events, published, nodeId, status)
    /\ published' = published + 1

publishTwo(nodeId, first, second) ==
    /\ events' = sent(sent(events, published, nodeId, first), published + 1, nodeId, second)
    /\ published' = published + 2

\* one status after another, for a list of nodes
RECURSIVE sentAll(_, _, _, _)
sentAll(evs, n, ids, status) ==
    IF ids = <<>> THEN evs
    ELSE sentAll(sent(evs, n, Head(ids), status), n + 1, Tail(ids), status)

\* a status for a node, then a second status for each node of a list
publishThenAll(nodeId, first, ids, second) ==
    /\ events' = sentAll(sent(events, published, nodeId, first), published + 1, ids, second)
    /\ published' = published + 1 + Len(ids)

(***************************************************************************)
(* The run driver, executeWorkflow.                                        *)
(***************************************************************************)
\* a thrown error leaves the handler
Throw(name, message) ==
    /\ pc' = "failed"
    /\ error' = [name |-> name, message |-> message]
    /\ exec' = NoExec

\* initialData forgotten
initialContextEmpty(e) == EmptyContext

\* event.data.initialData || {}
initialContext(e) == IF e.initialData.given THEN e.initialData.value ELSE EmptyContext

\* the workflowId check and the prepare-workflow step
Prepare ==
    /\ pc = "start"
    /\ IF event.workflowId = ""
       THEN Throw("NonRetriableError", "Workflow ID is required")
            /\ UNCHANGED <<sortedNodes, context, memo, seen>>
       ELSE IF memoised(stepId("prepare-workflow"))
       THEN /\ sortedNodes' = memo[stepId("prepare-workflow")]
            /\ context' = initialContext(event)
            /\ pc' = "loop"
            /\ seen' = issued("prepare-workflow")
            /\ UNCHANGED <<error, exec, memo>>
       ELSE IF event.workflowId # StoredWorkflowId
       THEN Throw("NotFoundError", "No Workflow found")
            /\ UNCHANGED <<sortedNodes, context, memo, seen>>
       ELSE LET r == topologicalSort(nodes, connections)
            IN IF r.ok
               THEN /\ sortedNodes' = r.plan
                    /\ context' = initialContext(event)
                    /\ pc' = "loop"
                    /\ memo' = remember(stepId("prepare-workflow"), r.plan)
                    /\ seen' = issued("prepare-workflow")
                    /\ UNCHANGED <<error, exec>>
               ELSE Throw("Error", "Workflow contains a cycle")
                    /\ UNCHANGED <<sortedNodes, context, memo, seen>>
    /\ UNCHANGED <<stored, idx, events, trace, published, attempt, calls>>

executorRegistry ==
    [t \in {"MANUAL_TRIGGER", "INITIAL", "HTTP_REQUEST", "GOOGLE_FORM_TRIGGER", "STRIPE_TRIGGER",
            "GEMINI", "ANTHROPIC", "OPENAI", "DISCORD", "SLACK", "AI_AGENT", "CHAT_MODEL",
            "MEMORY", "SEND_EMAIL", "WEB_SCRAPER", "CALCULATOR", "INVENTORY_LOOKUP",
            "ORDER_MANAGER"} |->
        CASE t \in {"MANUAL_TRIGGER", "INITIAL"} -> "manualTriggerExecutor"
          [] t = "HTTP_REQUEST" -> "httpRequestExecutor"
          [] t = "GEMINI" -> "geminiExecutor"
          [] t = "AI_AGENT" -> "aiAgentExecutor"
          [] t \in {"MEMORY", "CHAT_MODEL"} -> "memoryExecutor"
          [] t = "DISCORD" -> "discordExecutor"
          [] OTHER -> t]

\* the loop goes on without awaiting the executor
atNodeUnawaited == pc \in {"loop", "exec"} /\ idx <= Len(sortedNodes)

\* the loop is at a node, and no executor is awaited
atNode == pc = "loop" /\ idx <= Len(sortedNodes)

node == sortedNodes[idx]

\* getExecutor finds an executor for the type
registered(type) == type \in DOMAIN executorRegistry

\* the loop is at a node that the registry gives executor e
dispatches(e) == atNode /\ registered(node.type) /\ executorRegistry[node.type] = e

\* getExecutor throws for a type the registry does not hold: the error
\* leaves the loop before any executor is called
GetExecutorFails ==
    /\ atNode
    /\ ~registered(node.type)
    /\ Throw("Error", "No executor found for node type")
    /\ UNCHANGED <<stored, sortedNodes, idx, context, events, trace, memo, seen, published,
                   attempt, calls>>

\* context = await executor(...): the returned mapping replaces the context
returned(newContext) ==
    /\ context' = newContext
    /\ idx' = idx + 1
    /\ pc' = "loop"
    /\ exec' = NoExec
    /\ UNCHANGED error

\* the record of an executor call: the context it is given, the mapping it returns
started(id) == Append(trace, [nodeId |-> id, what |-> "start", context |-> context])
finished(tr, id, newContext) == Append(tr, [nodeId |-> id, what |-> "return", context |-> newContext])

\* the loop is over: return {workflowId, result: context}
Finish ==
    /\ pc = "loop"
    /\ idx > Len(sortedNodes)
    /\ pc' = "done"
    /\ UNCHANGED <<stored, sortedNodes, idx, context, exec, events, error, trace,
                   memo, seen, published, attempt, calls>>

(***************************************************************************)
(* The executors.                                                          *)
(***************************************************************************)
\* the spread of the context forgotten
onlyResult(ctx, variableName, payload) == variableName :> payload

\* the value of an await that an executor resolves with nothing: undefined
Nothing == "undefined" :> [seed |-> "undefined"]

\* ...context: the entries of a mapping, none for undefined
spread(ctx) == IF ctx = Nothing THEN EmptyContext ELSE ctx

\* {...context, [variableName]: payload}
withResult(ctx, variableName, payload) == (variableName :> payload) @@ spread(ctx)

\* an executor that has written into the context it was given throws
thrownAfterWrite(id, name, message, tr) ==
    /\ Throw(name, message)
    /\ trace' = Append(tr, [nodeId |-> id, what |-> "throw", context |-> EmptyContext])
    /\ context' = (id :> [seed |-> "partial"]) @@ context
    /\ UNCHANGED idx

\* an executor throws: the error leaves the loop and the handler
thrown(id, name, message, tr) ==
    /\ Throw(name, message)
    /\ trace' = Append(tr, [nodeId |-> id, what |-> "throw", context |-> EmptyContext])
    /\ UNCHANGED <<idx, context>>

\* external work is done for a node and answers
called(id, request, answer) ==
    Append(calls, [nodeId |-> id, request |-> request, answer |-> answer, attempt |-> attempt])

(***************************************************************************)
(* Templates. Handlebars.compile(t)(context) writes the literal parts of t *)
(* as they are and, for a part {{a.b.c}}, the value the path leads to in   *)
(* the context: nothing when the path leads nowhere, "[object Object]"     *)
(* when it leads to an object. A text is the list of its pieces.           *)
(***************************************************************************)
\* the parts of the templates that node data of the model holds
partsOf(template) ==
    CASE template = "hello {{r}}" -> <<[lit |-> "hello "], [path |-> <<"r">>]>>
      [] template = "ask {{r}}" -> <<[lit |-> "ask "], [path |-> <<"r">>]>>
      [] template = "{{q}}" -> <<[path |-> <<"q">>]>>
      [] template = "{\"id\":\"{{r.httpResponse.data.id}}\"}" ->
            <<[lit |-> "{\"id\":\""], [path |-> <<"r", "httpResponse", "data", "id">>],
              [lit |-> "\"}"]>>
      [] template = "{\"id\":\"{{r.httpResponce.data.id}}\"}" ->
            <<[lit |-> "{\"id\":\""], [path |-> <<"r", "httpResponce", "data", "id">>],
              [lit |-> "\"}"]>>
      [] OTHER -> <<[lit |-> template]>>

\* the keys of the model's contexts that hold a string or a number
LeafKeys == {"q", "seed", "id", "status", "statusText", "aiResponse", "agentResponse",
             "toolCallCount", "role", "content"}

\* the text a path renders to, from a value that is a leaf or an object
RECURSIVE lookup(_, _, _)
lookup(value, isLeaf, path) ==
    IF path = <<>> THEN (IF isLeaf THEN value ELSE "[object Object]")
    ELSE IF isLeaf THEN ""
    ELSE IF Head(path) \notin DOMAIN value THEN ""
    ELSE lookup(value[Head(path)], Head(path) \in LeafKeys, Tail(path))

rendered(template, ctx) ==
    LET parts == partsOf(template)
    IN [i \in 1..Len(parts) |->
           IF "lit" \in DOMAIN parts[i] THEN parts[i].lit ELSE lookup(ctx, FALSE, parts[i].path)]

\* manualTriggerExecutor up to its step
ManualTriggerBegin ==
    /\ dispatches("manualTriggerExecutor")
    /\ publish(node.id, "loading")
    /\ pc' = "exec"
    /\ exec' = [nodeId |-> node.id, at |-> "manual-trigger"]
    /\ trace' = started(node.id)
    /\ UNCHANGED <<stored, sortedNodes, idx, context, error, memo, seen, attempt, calls>>

\* the manual-trigger step returns the context; success is published
ManualTriggerEnd ==
    /\ pc = "exec"
    /\ exec.at = "manual-trigger"
    /\ LET id == stepId("manual-trigger")
           result == IF memoised(id) THEN memo[id] ELSE context
       IN /\ memo' = IF memoised(id) THEN memo ELSE remember(id, result)
          /\ returned(result)
          /\ trace' = finished(trace, exec.nodeId, result)
    /\ seen' = issued("manual-trigger")
    /\ publish(exec.nodeId, "success")
    /\ UNCHANGED <<stored, sortedNodes, attempt, calls>>

\* httpRequestExecutor up to its step: the two configuration checks
HttpRequestBegin ==
    /\ dispatches("httpRequestExecutor")
    /\ IF node.data.endpoint = ""
       THEN thrown(node.id, "NonRetriableError", "HTTP Request node: No endpoint configured",
                   started(node.id))
       ELSE IF node.data.variableName = ""
       THEN thrown(node.id, "NonRetriableError",
                   "HTTP Request node: No variable name configured", started(node.id))
       ELSE /\ pc' = "exec"
            /\ exec' = [nodeId |-> node.id, at |-> "http-request"]
            /\ trace' = started(node.id)
            /\ UNCHANGED <<idx, context, error>>
    /\ UNCHANGED <<stored, sortedNodes, events, memo, seen, published, attempt, calls>>

\* a field of node data, or what the code takes when it is not set
fieldOr(data, field, default) ==
    IF field \in DOMAIN data /\ data[field] # "" THEN data[field] ELSE default

\* the request ky is given: the body goes out as it is stored, for the
\* methods that carry one
httpRequest(data) ==
    LET method == fieldOr(data, "method", "GET")
    IN [endpoint |-> data.endpoint,
        method |-> method,
        json |-> IF method \in {"POST", "PUT", "PATCH"} /\ "body" \in DOMAIN data
                 THEN <<data.body>> ELSE <<>>]

\* the payload the http-request step builds from a response
httpPayload(data) == [httpResponce |-> [status |-> 200, statusText |-> "OK", data |-> data]]

\* the http-request step: kept from an earlier attempt, or ky throws or answers
HttpRequestEnd ==
    /\ pc = "exec"
    /\ exec.at = "http-request"
    /\ LET id == stepId("http-request")
       IN IF memoised(id)
          THEN /\ returned(memo[id])
               /\ trace' = finished(trace, exec.nodeId, memo[id])
               /\ UNCHANGED <<memo, calls>>
          ELSE \/ /\ thrown(exec.nodeId, "HTTPError", "Request failed", trace)
                  /\ UNCHANGED <<memo, calls>>
               \/ \E data \in Responses :
                     LET result == withResult(context, node.data.variableName, httpPayload(data))
                     IN /\ returned(result)
                        /\ trace' = finished(trace, exec.nodeId, result)
                        /\ memo' = remember(id, result)
                        /\ calls' = called(exec.nodeId, httpRequest(node.data), data)
    /\ seen' = issued("http-request")
    /\ UNCHANGED <<stored, sortedNodes, events, published, attempt>>

\* geminiExecutor up to its generation step
GeminiBegin ==
    /\ dispatches("geminiExecutor")
    /\ IF node.data.variableName = ""
       THEN /\ publishTwo(node.id, "loading", "error")
            /\ thrown(node.id, "NonRetriableError", "Variable name is required", started(node.id))
       ELSE IF node.data.userPrompt = ""
       THEN /\ publishTwo(node.id, "loading", "error")
            /\ thrown(node.id, "NonRetriableError", "User prompt is required", started(node.id))
       ELSE IF templateFails(node.data.userPrompt)
       THEN /\ publish(node.id, "loading")
            /\ thrown(node.id, "Error", "Parse error", started(node.id))
       ELSE /\ publish(node.id, "loading")
            /\ pc' = "exec"
            /\ exec' = [nodeId |-> node.id, at |-> "gemini-generate-text"]
            /\ trace' = started(node.id)
            /\ UNCHANGED <<idx, context, error>>
    /\ UNCHANGED <<stored, sortedNodes, memo, seen, attempt, calls>>

\* the text of the answer is stored under the variable name
geminiReturns(text) ==
    LET result == withResult(context, node.data.variableName, [aiResponse |-> text])
    IN /\ publish(exec.nodeId, "success")
       /\ returned(result)
       /\ trace' = finished(trace, exec.nodeId, result)

\* the gemini-generate-text step: kept from an earlier attempt, or the provider
\* fails or answers
GeminiEnd ==
    /\ pc = "exec"
    /\ exec.at = "gemini-generate-text"
    /\ LET id == stepId("gemini-generate-text")
       IN IF memoised(id)
          THEN /\ geminiReturns(memo[id])
               /\ UNCHANGED <<memo, calls>>
          ELSE \/ /\ publish(exec.nodeId, "error")
                  /\ thrown(exec.nodeId, "APICallError", "generation failed", trace)
                  /\ UNCHANGED <<memo, calls>>
               \/ \E text \in Texts :
                     /\ geminiReturns(text)
                     /\ memo' = remember(id, text)
                     /\ calls' = called(exec.nodeId, rendered(node.data.userPrompt, context), text)
    /\ seen' = issued("gemini-generate-text")
    /\ UNCHANGED <<stored, sortedNodes, attempt>>

(***************************************************************************)
(* aiAgentExecutor: the sub-nodes are read from the stored connections     *)
(* into the agent, in their order; of several chat models or memories the  *)
(* last one read is kept.                                                  *)
(***************************************************************************)
connectionsInto(id, handle) ==
    SelectSeq(connections, LAMBDA c : c.toNodeId = id /\ c.toInput = handle)

nodeOf(id) == nodes[CHOOSE i \in 1..Len(nodes) : nodes[i].id = id]

\* the sub-node kept for a handle: its id, or "" when none is connected
subNodeOf(id, handle) ==
    LET cs == connectionsInto(id, handle)
    IN IF cs = <<>> THEN "" ELSE cs[Len(cs)].fromNodeId

toolNodeIdsOf(id) ==
    LET cs == connectionsInto(id, "tool-target")
    IN [i \in 1..Len(cs) |-> cs[i].fromNodeId]

\* chatModelData?.provider, "" when there is none
providerOf(id) ==
    IF id = "" THEN ""
    ELSE LET d == nodeOf(id).data IN IF "provider" \in DOMAIN d THEN d.provider ELSE ""

\* the credential rows, by id: the encrypted value each holds
Credentials == ("cred" :> "sealed") @@ ("bad" :> "garbled") @@ ("theirs" :> "sealed too")

\* the organization of each credential row: 1 is the workflow's
CredentialOrgs == ("cred" :> 1) @@ ("bad" :> 1) @@ ("theirs" :> 2)

\* decrypt(value) of a value it can open
decrypt(value) == IF value = "sealed too" THEN "their key" ELSE "key"

\* decrypt(value) throws for a value it cannot open
decryptThrows(value) == value = "garbled"

\* resolveCredential(credentialId): the key, "" when there is no id or no
\* row, or the error decrypt throws
resolveCredential(credentialId) ==
    IF credentialId = "" THEN [threw |-> FALSE, key |-> ""]
    ELSE IF credentialId \notin DOMAIN Credentials THEN [threw |-> FALSE, key |-> ""]
    ELSE IF decryptThrows(Credentials[credentialId]) THEN [threw |-> TRUE, key |-> ""]
    ELSE [threw |-> FALSE, key |-> decrypt(Credentials[credentialId])]

\* the key is taken to be there
apiKeyAssumed(id) == "key"

\* apiKey of the chat model node id: "" stays when resolveCredential throws
apiKey(id) ==
    LET d == nodeOf(id).data
        found == resolveCredential(IF "credentialId" \in DOMAIN d THEN d.credentialId ELSE "")
    IN IF found.threw THEN "" ELSE found.key

\* the sub-nodes that get the agent's status: chat model, memory, tools
subNodesOf(id) ==
    (IF subNodeOf(id, "chat-model-target") = "" THEN <<>>
     ELSE <<subNodeOf(id, "chat-model-target")>>)
    \o (IF subNodeOf(id, "memory-target") = "" THEN <<>>
        ELSE <<subNodeOf(id, "memory-target")>>)
    \o toolNodeIdsOf(id)

\* memoryData: the data of the memory sub-node of agent id, if it has one
hasMemory(id) == subNodeOf(id, "memory-target") # ""
memoryData(id) == nodeOf(subNodeOf(id, "memory-target")).data

defaultWindowSize == 10

\* memoryData?.memoryKey || "chatHistory"
memoryKey(id) ==
    IF hasMemory(id) /\ "memoryKey" \in DOMAIN memoryData(id) /\ memoryData(id).memoryKey # ""
    THEN memoryData(id).memoryKey ELSE "chatHistory"

\* memoryData?.windowSize || 10
windowSize(id) ==
    IF hasMemory(id) /\ "windowSize" \in DOMAIN memoryData(id) /\ memoryData(id).windowSize # 0
    THEN memoryData(id).windowSize ELSE defaultWindowSize

\* history is not read back from the context
noHistory(id, ctx) == <<>>

\* context[memoryKey] || []; a history held in the context is the record of
\* its turns, so that it can be told from the other values of the context
existingHistory(id, ctx) == IF memoryKey(id) \in DOMAIN ctx THEN ctx[memoryKey(id)].turns ELSE <<>>

\* s.slice(0, n)
firstOf(s, n) == IF Len(s) <= n THEN s ELSE SubSeq(s, 1, n)

\* s.slice(-n), for n > 0
lastOf(s, n) == IF Len(s) <= n THEN s ELSE SubSeq(s, Len(s) - n + 1, Len(s))

\* the window forgotten: the whole history and the rendered prompt
wholeHistoryMessages(id, data, ctx) ==
    existingHistory(id, ctx) \o <<[role |-> "user", content |-> rendered(data.userPrompt, ctx)]>>

\* the messages the model is given: the recent history and the rendered prompt
agentMessages(id, data, ctx) ==
    lastOf(existingHistory(id, ctx), windowSize(id))
        \o <<[role |-> "user", content |-> rendered(data.userPrompt, ctx)]>>

(***************************************************************************)
(* The tools buildToolsFromNodes gives the model for the tool nodes that   *)
(* are connected to the agent. orgId is the organization of the agent's    *)
(* workflow as the executor resolved it, 0 when it resolved none.          *)
(***************************************************************************)
\* the names of the tools built for the tool nodes of agent id
toolsOf(id) ==
    UNION {CASE nodeOf(t).type = "ORDER_MANAGER" -> {"search_orders", "update_order_status"}
             [] nodeOf(t).type = "CALCULATOR" -> {"calculator"}
             [] OTHER -> {}
           : t \in Range(toolNodeIdsOf(id))}

\* toolNode.data?.variableName || `tool_${toolNode.id.slice(0, 8)}`
toolNameOf(toolNode) ==
    IF "variableName" \in DOMAIN toolNode.data /\ toolNode.data.variableName # ""
    THEN toolNode.data.variableName
    ELSE "tool_" \o toolNode.id

\* the keys one tool node assigns in tools, each with the descriptor built
\* for that node
descriptorsOf(toolNode) ==
    LET from(names) == [name \in names |-> [node |-> toolNode.id, type |-> toolNode.type]]
    IN CASE toolNode.type = "HTTP_REQUEST" -> from({toolNameOf(toolNode)})
         [] toolNode.type = "SEND_EMAIL" -> from({"send_email"})
         [] toolNode.type = "WEB_SCRAPER" -> from({"web_scraper"})
         [] toolNode.type = "CALCULATOR" -> from({"calculator"})
         [] toolNode.type = "INVENTORY_LOOKUP" -> from({"search_products", "list_warehouses"})
         [] toolNode.type = "ORDER_MANAGER" ->
                from({"search_orders", "update_order_status", "get_order_stats"})
         [] OTHER -> from({toolNameOf(toolNode)})

\* tools[key] = tool({...}) for every tool node in turn: an assignment to a
\* key that is already held replaces what the key held
RECURSIVE buildToolsFromNodes(_)
buildToolsFromNodes(toolNodes_) ==
    IF toolNodes_ = <<>> THEN <<>>
    ELSE descriptorsOf(toolNodes_[Len(toolNodes_)])
            @@ buildToolsFromNodes(SubSeq(toolNodes_, 1, Len(toolNodes_) - 1))

\* the tool nodes of agent id as they are read for buildToolsFromNodes
toolNodesOf(id) == [i \in 1..Len(toolNodeIdsOf(id)) |-> nodeOf(toolNodeIdsOf(id)[i])]

Digits == <<"0", "1", "2", "3", "4", "5", "6", "7", "8", "9">>
isDigit(ch) == ch \in Range(Digits)
digitValue(ch) == (CHOOSE i \in 1..10 : Digits[i] = ch) - 1

\* BigInt(orderId) for a string of characters: decimal digits, or it throws
isNumeric(chars) == \A i \in 1..Len(chars) : isDigit(chars[i])

RECURSIVE BigInt(_)
BigInt(chars) ==
    IF chars = <<>> THEN 0
    ELSE 10 * BigInt(SubSeq(chars, 1, Len(chars) - 1)) + digitValue(chars[Len(chars)])

\* ...(orgId ? { org_id: orgId } : {})
inOrg(orgId, order) == orgId # 0 => order.org_id = orgId

\* prisma.order.findFirst: is there a row with this id that passes the filter
orderFound(orders, orgId, orderId) ==
    /\ BigInt(orderId) \in DOMAIN orders
    /\ inOrg(orgId, orders[BigInt(orderId)])

\* search_orders without query or status: the ids of the rows
\* prisma.order.findMany gives for where = {} or {org_id: orgId}
searchOrders(orders, orgId) == {id \in DOMAIN orders : inOrg(orgId, orders[id])}

\* update_order_status: the string the tool returns and the order rows after it
updateOrderStatus(orders, orgId, orderId, newStatus) ==
    IF ~isNumeric(orderId)
    THEN [result |-> <<"Order Update Error: ", "Cannot convert to a BigInt">>, orders |-> orders]
    ELSE IF ~orderFound(orders, orgId, orderId)
    THEN [result |-> <<"Error: Order #">> \o orderId \o <<" not found in your organization.">>,
          orders |-> orders]
    ELSE [result |-> <<"Order #">> \o orderId
                        \o <<" status updated to \"", newStatus, "\" successfully.">>,
          orders |-> [orders EXCEPT ![BigInt(orderId)].status = newStatus]]

\* data.maxIterations || 10
defaultMaxIterations == 10
\* the default forgotten
stepLimitUnset(data) == IF "maxIterations" \in DOMAIN data THEN data.maxIterations ELSE 0

stepLimit(data) ==
    IF "maxIterations" \in DOMAIN data /\ data.maxIterations # 0
    THEN data.maxIterations ELSE defaultMaxIterations

\* aiAgentExecutor up to its generation step
AgentBegin ==
    /\ dispatches("aiAgentExecutor")
    /\ LET chatModelNodeId == subNodeOf(node.id, "chat-model-target")
       IN IF node.data.variableName = ""
          THEN /\ publishTwo(node.id, "loading", "error")
               /\ thrown(node.id, "NonRetriableError", "AI Agent: Variable name is required",
                         started(node.id))
          ELSE IF node.data.userPrompt = ""
          THEN /\ publishTwo(node.id, "loading", "error")
               /\ thrown(node.id, "NonRetriableError", "AI Agent: User prompt is required",
                         started(node.id))
          ELSE IF providerOf(chatModelNodeId) = ""
          THEN /\ publishTwo(node.id, "loading", "error")
               /\ thrown(node.id, "NonRetriableError", "AI Agent: No Chat Model connected",
                         started(node.id))
          ELSE IF apiKey(chatModelNodeId) = ""
          THEN /\ publishTwo(node.id, "loading", "error")
               /\ thrown(node.id, "NonRetriableError",
                         "AI Agent: Chat Model has no API key configured", started(node.id))
          ELSE IF templateFails(node.data.userPrompt)
          THEN /\ publishThenAll(node.id, "loading", subNodesOf(node.id), "loading")
               /\ thrown(node.id, "Error", "Parse error", started(node.id))
          ELSE /\ publishThenAll(node.id, "loading", subNodesOf(node.id), "loading")
               /\ pc' = "exec"
               /\ exec' = [nodeId |-> node.id, at |-> "ai-agent-generate"]
               /\ trace' = started(node.id)
               /\ UNCHANGED <<idx, context, error>>
    /\ UNCHANGED <<stored, sortedNodes, memo, seen, attempt, calls>>

\* the provider is called with the key createModelInstance was given
calledWith(key, id, request, answer) ==
    Append(calls, [nodeId |-> id, request |-> request, answer |-> answer, attempt |-> attempt,
                   apiKey |-> key])

(***************************************************************************)
(* The calculator tool. An expression is the list of its characters.       *)
(***************************************************************************)
Letters == {"a", "b", "c", "d", "e", "f", "g", "h", "i", "j", "k", "l", "m", "n", "o", "p", "q", "r", "s", "t", "u", "v", "w", "x", "y", "z",
            "A", "B", "C", "D", "E", "F", "G", "H", "I", "J", "K", "L", "M", "N", "O", "P", "Q", "R", "S", "T", "U", "V", "W", "X", "Y", "Z"}

\* \w
isWordChar(ch) == ch \in Letters \/ isDigit(ch) \/ ch = "_"

\* [0-9+\-*/%.() ,eE\s]
isSafeChar(ch) == isDigit(ch) \/ ch \in {"+", "-", "*", "/", "%", ".", "(", ")", " ", ",", "e", "E"}

startsWith(chars, prefix) ==
    Len(chars) >= Len(prefix) /\ SubSeq(chars, 1, Len(prefix)) = prefix

\* chars without the word characters it begins with
RECURSIVE afterWord(_)
afterWord(chars) ==
    IF chars # <<>> /\ isWordChar(Head(chars)) THEN afterWord(Tail(chars)) ELSE chars

\* expression.replace(/Math\.\w+/g, "")
RECURSIVE withoutMath(_)
withoutMath(chars) ==
    IF chars = <<>> THEN <<>>
    ELSE IF startsWith(chars, <<"M", "a", "t", "h", ".">>) /\ Len(chars) >= 6
            /\ isWordChar(chars[6])
    THEN withoutMath(afterWord(SubSeq(chars, 6, Len(chars))))
    ELSE <<Head(chars)>> \o withoutMath(Tail(chars))

\* .replace(/PI|E/g, "")
RECURSIVE withoutConstants(_)
withoutConstants(chars) ==
    IF chars = <<>> THEN <<>>
    ELSE IF startsWith(chars, <<"P", "I">>) THEN withoutConstants(SubSeq(chars, 3, Len(chars)))
    ELSE IF Head(chars) = "E" THEN withoutConstants(Tail(chars))
    ELSE <<Head(chars)>> \o withoutConstants(Tail(chars))

cleaned(expression) == withoutConstants(withoutMath(expression))

\* /^[0-9+\-*/%.() ,eE\s]*$/.test(cleaned)
passesValidation(expression) ==
    \A i \in 1..Len(cleaned(expression)) : isSafeChar(cleaned(expression)[i])

\* the expression cut into its words and its other characters, in order
RECURSIVE tokensOf(_)
tokensOf(chars) ==
    IF chars = <<>> THEN <<>>
    ELSE LET rest == tokensOf(Tail(chars))
         IN IF isWordChar(Head(chars)) /\ rest # <<>> /\ isWordChar(rest[1][1])
            THEN <<<<Head(chars)>> \o rest[1]>> \o Tail(rest)
            ELSE <<<<Head(chars)>>>> \o rest

\* the words that .replace(/\bPI\b/g, "Math.PI") and the ten after it rewrite
RewrittenWords ==
    {<<"P", "I">>,
    <<"E">>,
    <<"s", "q", "r", "t">>,
    <<"s", "i", "n">>,
    <<"c", "o", "s">>,
    <<"t", "a", "n">>,
    <<"l", "o", "g">>,
    <<"a", "b", "s">>,
    <<"r", "o", "u", "n", "d">>,
    <<"c", "e", "i", "l">>,
    <<"f", "l", "o", "o", "r">>}

RECURSIVE flat(_)
flat(tokens) == IF tokens = <<>> THEN <<>> ELSE Head(tokens) \o flat(Tail(tokens))

\* safeExpr: each of these words, standing alone, gets Math. before it
safeExpr(expression) ==
    LET tokens == tokensOf(expression)
    IN flat([i \in 1..Len(tokens) |->
                IF tokens[i] \in RewrittenWords
                THEN <<"M", "a", "t", "h", ".">> \o tokens[i] ELSE tokens[i]])

\* the calculator tool: the string it returns and what it gave new Function,
\* whose outcome is a result or a thrown error
calculator(expression, outcome) ==
    IF ~passesValidation(expression)
    THEN [result |-> <<"Error: Expression contains unsafe characters.">>, evaluated |-> <<>>]
    ELSE [result |-> <<outcome>>, evaluated |-> <<safeExpr(expression)>>]

\* the expressions the model asks for
Expressions ==
    {<<"2", "+", "3">>,
    <<"P", "I", "*", "2">>,
    <<"M", "a", "t", "h", ".", "s", "q", "r", "t", "(", "4", ")">>,
    <<"s", "q", "r", "t", "(", "1", "4", "4", ")", " ", "+", " ", "3">>,
    <<"r", "e", "q", "u", "i", "r", "e", "(", "'", "f", "s", "'", ")">>,
    <<"M", "a", "t", "h", ".", "e", "x", "p", "(", "1", ")">>,
    <<"e">>,
    <<"1", "e", "5">>,
    <<"p", "o", "w", "(", "2", ",", "3", ")">>}

\* the generation loop is at a step in which the model may call a tool: the
\* step callback runs for the first time and the step limit is not reached
atToolStep ==
    /\ pc = "exec"
    /\ exec.at = "ai-agent-generate"
    /\ ~memoised(stepId("ai-agent-generate"))
    /\ Len(steps) < stepLimit(node.data)
    /\ Len(steps) < MaxToolSteps

\* the order ids and the status the model asks for
OrderIds == {<<"4", "2">>, <<"7">>, <<"9">>, <<"x">>}
NewStatuses == {"shipped"}

\* a step of the generation loop in which the model calls a tool
ToolCall ==
    /\ atToolStep
    /\ \/ /\ "update_order_status" \in toolsOf(node.id)
          /\ \E orderId \in OrderIds, newStatus \in NewStatuses :
                LET r == updateOrderStatus(db.orders, db.orgId, orderId, newStatus)
                IN /\ db' = [db EXCEPT !.orders = r.orders]
                   /\ steps' = Append(steps, [tool |-> "update_order_status", attempt |-> attempt,
                                              input |-> orderId, result |-> r.result])
       \/ /\ "search_orders" \in toolsOf(node.id)
          /\ steps' = Append(steps, [tool |-> "search_orders", attempt |-> attempt,
                                     rows |-> searchOrders(db.orders, db.orgId)])
          /\ UNCHANGED db
       \/ /\ "calculator" \in toolsOf(node.id)
          /\ \E expression \in Expressions, outcome \in {"Result: ", "Calculation Error: "} :
                LET r == calculator(expression, outcome)
                IN /\ steps' = Append(steps, [tool |-> "calculator", attempt |-> attempt,
                                              input |-> expression,
                                              result |-> r.result, evaluated |-> r.evaluated])
                   /\ UNCHANGED db
    /\ UNCHANGED <<nodes, connections, event, run, conversation, pc, sortedNodes, idx, context, sessions,
                   exec, events, error, trace, memo, seen, published, attempt, calls>>

\* the texts the generation can end with: none when the step limit stopped
\* the loop at a tool call
finalTexts == IF Len(steps) >= stepLimit(node.data) THEN {""} ELSE Texts

\* every step counted as a tool call
agentResultAllSteps(text) ==
    [agentResponse |-> text,
     toolCallCount |-> IF Len(steps) >= stepLimit(node.data) THEN Len(steps) ELSE Len(steps) + 1,
     updatedHistory |->
        lastOf(existingHistory(node.id, context)
                   \o <<[role |-> "user", content |-> rendered(node.data.userPrompt, context)],
                        [role |-> "assistant", content |-> <<text>>]>>,
               windowSize(node.id) * 2)]

\* what the ai-agent-generate step returns for an answer of the model:
\* agentSteps holds the steps with a tool call and, unless the step limit
\* stopped the loop, the step with the final text
agentResult(text) ==
    [agentResponse |-> text,
     toolCallCount |-> IF Len(steps) >= stepLimit(node.data) THEN Len(steps) - 1 ELSE Len(steps),
     updatedHistory |->
        lastOf(existingHistory(node.id, context)
                   \o <<[role |-> "user", content |-> rendered(node.data.userPrompt, context)],
                        [role |-> "assistant", content |-> <<text>>]>>,
               windowSize(node.id) * 2)]

\* the answer is stored under the variable name, the history under the memory key
agentReturns(result) ==
    LET answered == withResult(context, node.data.variableName,
                               [agentResponse |-> result.agentResponse,
                                toolCallCount |-> result.toolCallCount])
        newContext == IF hasMemory(node.id)
                      THEN withResult(answered, memoryKey(node.id), [turns |-> result.updatedHistory])
                      ELSE answered
    IN /\ publishThenAll(exec.nodeId, "success", subNodesOf(exec.nodeId), "success")
       /\ returned(newContext)
       /\ trace' = finished(trace, exec.nodeId, newContext)

\* the ai-agent-generate step: kept from an earlier attempt, or the provider
\* fails or answers
AgentEnd ==
    /\ pc = "exec"
    /\ exec.at = "ai-agent-generate"
    /\ LET id == stepId("ai-agent-generate")
       IN IF memoised(id)
          THEN /\ agentReturns(memo[id])
               /\ UNCHANGED <<memo, calls>>
          ELSE \/ /\ publishThenAll(exec.nodeId, "error", subNodesOf(exec.nodeId), "error")
                  /\ thrown(exec.nodeId, "APICallError", "generation failed", trace)
                  /\ UNCHANGED <<memo, calls>>
               \/ \E text \in finalTexts :
                     /\ agentReturns(agentResult(text))
                     /\ memo' = remember(id, agentResult(text))
                     /\ calls' = calledWith(apiKey(subNodeOf(node.id, "chat-model-target")),
                                            exec.nodeId,
                                            agentMessages(node.id, node.data, context), text)
    /\ seen' = issued("ai-agent-generate")
    /\ UNCHANGED <<stored, sortedNodes, attempt>>

\* memoryExecutor, and every other executor that returns its context as it is
PassThrough ==
    /\ dispatches("memoryExecutor")
    /\ returned(context)
    /\ trace' = finished(started(node.id), node.id, context)
    /\ UNCHANGED <<stored, sortedNodes, events, memo, seen, published, attempt, calls>>

\* an executor whose code this source tree does not hold: it resolves with
\* the context it was given, or with nothing
DiscordExecutor ==
    /\ dispatches("discordExecutor")
    /\ \E result \in {context, Nothing} :
          /\ returned(result)
          /\ trace' = finished(started(node.id), node.id, result)
    /\ UNCHANGED <<stored, sortedNodes, events, memo, seen, published, attempt, calls>>

\* the handler over the executors that read nothing but their node
NextPlain ==
    \/ Prepare
    \/ ManualTriggerBegin
    \/ ManualTriggerEnd
    \/ HttpRequestBegin
    \/ HttpRequestEnd
    \/ GeminiBegin
    \/ GeminiEnd
    \/ PassThrough
    \/ GetExecutorFails
    \/ Finish

Next ==
    \/ NextPlain
    \/ AgentBegin
    \/ AgentEnd

Spec == Init /\ [][Next]_vars

\* the planner applied to every stored workflow
NextPlan == Prepare

SpecPlan == InitPlan /\ [][NextPlan]_vars

\* the runtime enters the handler again: the step state and what was
\* published stay, everything the handler holds starts over
Reenter ==
    /\ pc \in {"loop", "exec"}
    /\ attempt < MaxAttempts
    /\ attempt' = attempt + 1
    /\ pc' = "start"
    /\ sortedNodes' = <<>>
    /\ idx' = 1
    /\ context' = EmptyContext
    /\ exec' = NoExec
    /\ trace' = <<>>
    /\ seen' = [n \in StepNames |-> 0]
    /\ published' = 0
    /\ UNCHANGED <<stored, events, error, memo, calls>>

NextReplay == NextPlain \/ Reenter

SpecReplay == InitReplay /\ [][NextReplay]_vars

(***************************************************************************)
(* An agent with a memory sub-node, run again and again: each run is       *)
(* started with the context the run before it returned and a new prompt.   *)
(***************************************************************************)
\* the prompt of the n-th run
Prompts == <<"p1", "p2", "p3", "p4", "p5">>

PriorTurns == {[role |-> r, content |-> <<"old">>] : r \in {"user", "assistant"}}

\* a memory sub-node: window size and memory key, 0 and "" when not set; "a"
\* is also the variable name of the agent
MemoryData == {[variableName |-> "", endpoint |-> "", userPrompt |-> "",
                windowSize |-> w, memoryKey |-> k] : w \in {0, 1, 2}, k \in {"", "mem", "a"}}

memoryNodes(m) ==
    <<[id |-> "T1", type |-> "MANUAL_TRIGGER", data |-> configuredData("T1")],
      [id |-> "A", type |-> "AI_AGENT",
       data |-> [variableName |-> "a", endpoint |-> "", userPrompt |-> "{{q}}"]],
      [id |-> "CM", type |-> "CHAT_MODEL",
       data |-> [variableName |-> "", endpoint |-> "", userPrompt |-> "",
                 provider |-> "gemini", credentialId |-> "cred"]],
      [id |-> "M", type |-> "MEMORY", data |-> m]>>

memoryConnections ==
    <<[fromNodeId |-> "T1", toNodeId |-> "A", toInput |-> "main"],
      [fromNodeId |-> "CM", toNodeId |-> "A", toInput |-> "chat-model-target"],
      [fromNodeId |-> "M", toNodeId |-> "A", toInput |-> "memory-target"]>>

\* the event of a run: its prompt under q, over the context handed to it
promptEvent(n, ctx) ==
    [workflowId |-> StoredWorkflowId,
     initialData |-> [given |-> TRUE, value |-> ("q" :> Prompts[n]) @@ ctx]]

InitMemory ==
    /\ \E m \in MemoryData, prior \in SeqsUpTo(PriorTurns, MaxPrior) :
          /\ nodes = memoryNodes(m)
          /\ connections = memoryConnections
          /\ event = promptEvent(1, IF prior = <<>> THEN EmptyContext
                                     ELSE (IF m.memoryKey = "" THEN "chatHistory"
                                           ELSE m.memoryKey) :> [turns |-> prior])
          /\ conversation = prior
    /\ run = 1
    /\ db = NoDb
    /\ Fresh
    /\ sessions = NoSessions

\* the turns of the run that has completed: what the model was asked last,
\* and what it answered
turnsOfRun ==
    LET call == calls[Len(calls)]
    IN <<call.request[Len(call.request)], [role |-> "assistant", content |-> <<call.answer>>]>>

\* the workflow is run again with the context the completed run returned
Rerun ==
    /\ pc = "done"
    /\ run < MaxRuns
    /\ run' = run + 1
    /\ conversation' = conversation \o turnsOfRun
    /\ event' = promptEvent(run + 1, context)
    /\ pc' = "start"
    /\ sortedNodes' = <<>>
    /\ idx' = 1
    /\ context' = EmptyContext
    /\ exec' = NoExec
    /\ events' = <<>>
    /\ trace' = <<>>
    /\ memo' = <<>>
    /\ seen' = [n \in StepNames |-> 0]
    /\ published' = 0
    /\ attempt' = 1
    /\ calls' = <<>>
    /\ UNCHANGED <<nodes, connections, error, db, steps, sessions>>

NextMemory ==
    \/ Prepare
    \/ ManualTriggerBegin
    \/ ManualTriggerEnd
    \/ AgentBegin
    \/ AgentEnd
    \/ Finish
    \/ Rerun

SpecMemory == InitMemory /\ [][NextMemory]_vars

(***************************************************************************)
(* An agent with tools: an order manager and a calculator. The workflow    *)
(* belongs to organization 1; the executor resolves that, or nothing.      *)
(***************************************************************************)
WorkflowOrg == 1

\* the order rows: one of the workflow's organization and one of another
Orders == (42 :> [org_id |-> 2, status |-> "pending"]) @@ (7 :> [org_id |-> 1, status |-> "pending"])

\* the values the agent dialog accepts for maxIterations, 0 when it is not set
formSchemaAccepts(v) == v >= 1 /\ v <= 25
MaxIterations == {v \in 0..30 : v = 0 \/ formSchemaAccepts(v)}

toolNodes(maxIterations) ==
    <<[id |-> "T1", type |-> "MANUAL_TRIGGER", data |-> configuredData("T1")],
      [id |-> "A", type |-> "AI_AGENT",
       data |-> [variableName |-> "a", endpoint |-> "", userPrompt |-> "ask {{r}}",
                 maxIterations |-> maxIterations]],
      [id |-> "CM", type |-> "CHAT_MODEL",
       data |-> [variableName |-> "", endpoint |-> "", userPrompt |-> "",
                 provider |-> "gemini", credentialId |-> "cred"]],
      [id |-> "O", type |-> "ORDER_MANAGER", data |-> configuredData("O")],
      [id |-> "K", type |-> "CALCULATOR", data |-> configuredData("K")]>>

toolConnections(toolIds) ==
    <<[fromNodeId |-> "T1", toNodeId |-> "A", toInput |-> "main"],
      [fromNodeId |-> "CM", toNodeId |-> "A", toInput |-> "chat-model-target"]>>
    \o [i \in 1..Len(toolIds) |->
            [fromNodeId |-> toolIds[i], toNodeId |-> "A", toInput |-> "tool-target"]]

InitTools ==
    /\ event = [workflowId |-> StoredWorkflowId,
                initialData |-> [given |-> FALSE, value |-> EmptyContext]]
    /\ \E maxIterations \in MaxIterations : nodes = toolNodes(maxIterations)
    /\ \E toolIds \in {<<"O">>, <<"K">>, <<"O", "K">>, <<>>} :
          connections = toolConnections(toolIds)
    /\ \E orgId \in {0, WorkflowOrg} : db = [orgId |-> orgId, orders |-> Orders]
    /\ run = 1
    /\ conversation = <<>>
    /\ Fresh
    /\ sessions = NoSessions

NextTools ==
    \/ Prepare
    \/ ManualTriggerBegin
    \/ ManualTriggerEnd
    \/ AgentBegin
    \/ ToolCall
    \/ AgentEnd
    \/ Finish

SpecTools == InitTools /\ [][NextTools]_vars

(***************************************************************************)
(* The same runs, entered again by the runtime after a step has completed. *)
(* The function is created with retries: 0, so a step whose callback has   *)
(* begun is not begun again: the handler is entered again between steps.   *)
(***************************************************************************)
InitToolsReplay ==
    /\ InitTools
    /\ nodes = toolNodes(0)

ReenterAfterStep ==
    /\ pc = "loop"
    /\ Reenter

NextToolsReplay ==
    \/ NextTools
    \/ ReenterAfterStep

SpecToolsReplay == InitToolsReplay /\ [][NextToolsReplay]_vars

(***************************************************************************)
(* Runs over a trigger, an executor from outside this source tree and two  *)
(* HTTP requests, the second with a body.                                  *)
(***************************************************************************)
DriverOrder == <<"T1", "D", "H", "H2">>

InitDriver ==
    /\ event \in {[workflowId |-> StoredWorkflowId, initialData |-> d] : d \in InitialDatas}
    /\ \E ids \in NodeListsOf(DriverOrder) :
          /\ nodes = configuredNodes(ids)
          /\ connections \in ConnectionsOver(Range(ids), {"main"})
    /\ Fresh
    /\ sessions = NoSessions
    /\ Unrun

NextDriver ==
    \/ Prepare
    \/ ManualTriggerBegin
    \/ ManualTriggerEnd
    \/ HttpRequestBegin
    \/ HttpRequestEnd
    \/ DiscordExecutor
    \/ Finish

SpecDriver == InitDriver /\ [][NextDriver]_vars

(***************************************************************************)
(* What the properties speak of, defined from the stored workflow alone.   *)
(***************************************************************************)
MainLabels == {"", "main", "target-1"}

MainEdges ==
    {<<c.fromNodeId, c.toNodeId>> : c \in {c \in Range(connections) : c.toInput \in MainLabels}}

TriggerIds ==
    {n.id : n \in {n \in Range(nodes) :
        n.type \in {"INITIAL", "MANUAL_TRIGGER", "GOOGLE_FORM_TRIGGER", "STRIPE_TRIGGER"}}}

Successors(S) == {e[2] : e \in {e \in MainEdges : e[1] \in S}}

RECURSIVE Closure(_)
Closure(S) == IF Successors(S) \subseteq S THEN S ELSE Closure(S \cup Successors(S))

\* the nodes a trigger reaches over main-flow connections
MainReachable == Closure(TriggerIds)

\* n lies on a cycle of main-flow connections
OnMainCycle(n) == n \in Closure(Successors({n}))

planIds == idsOf(sortedNodes)

\* the prepare-workflow step has returned a plan
Planned == pc \in {"loop", "exec", "done"} \/ (pc = "failed" /\ trace # <<>>)

ExpectedInitial == IF event.initialData.given THEN event.initialData.value ELSE EmptyContext

CountOf(id, statuses) ==
    Cardinality({k \in 1..Len(events) : events[k].nodeId = id /\ events[k].status \in statuses})

(***************************************************************************)
(* C1: a plan returned by topologicalSort holds no node twice, and for     *)
(* every main-flow connection (u,v) with both ends in the plan, u comes    *)
(* before v.                                                               *)
(***************************************************************************)
C1_PlanOrdered ==
    Planned =>
        /\ \A i, j \in 1..Len(planIds) : i # j => planIds[i] # planIds[j]
        /\ \A e \in MainEdges :
              e[1] \in Range(planIds) /\ e[2] \in Range(planIds)
                  => IndexOf(planIds, e[1]) < IndexOf(planIds, e[2])

\* a plan of three nodes chained by two main-flow connections
C1_Witness ==
    /\ Planned
    /\ Len(planIds) = 3
    /\ \E e, f \in MainEdges : e[2] = f[1] /\ e[1] # f[2] /\ {e[1], e[2], f[2]} = Range(planIds)

(***************************************************************************)
(* C2: every node of the plan is reachable from a trigger over main-flow   *)
(* connections; a node that is no trigger and has no main-flow connection  *)
(* into it is not in the plan.                                             *)
(***************************************************************************)
C2_PlanReachable ==
    Planned =>
        /\ Range(planIds) \subseteq MainReachable
        /\ \A n \in Range(nodes) :
              (n.id \notin TriggerIds /\ ~\E e \in MainEdges : e[2] = n.id)
                  => n.id \notin Range(planIds)

\* a planned node has a sub-node connection to a node that is left out
C2_Witness ==
    /\ Planned
    /\ Len(planIds) >= 2
    /\ \E c \in Range(connections) :
          /\ c.toInput = "tool-target"
          /\ c.fromNodeId \in Range(planIds)
          /\ c.toNodeId \notin Range(planIds)
          /\ c.toNodeId \notin TriggerIds

(***************************************************************************)
(* C3: every node reachable from a trigger over main-flow connections is   *)
(* in the plan, and a run that completes has executed it.                  *)
(***************************************************************************)
C3_ReachablePlanned ==
    /\ Planned => MainReachable \subseteq Range(planIds)
    /\ pc = "done" => MainReachable \subseteq {trace[k].nodeId : k \in 1..Len(trace)}

(***************************************************************************)
(* C4, as stated: a workflow whose main-flow connections contain a cycle   *)
(* fails planning with the cycle error; no node runs, no status is sent.   *)
(***************************************************************************)
PlanningFailedOnCycle ==
    /\ pc = "failed"
    /\ error.message = "Workflow contains a cycle"
    /\ trace = <<>>
    /\ events = <<>>

C4_AnyCycleFails ==
    (pc # "start" /\ event.workflowId = StoredWorkflowId
        /\ \E n \in Range(idsOf(nodes)) : OnMainCycle(n))
    => PlanningFailedOnCycle

(***************************************************************************)
(* C4, amended: a workflow with a main-flow cycle through a node that a    *)
(* trigger reaches fails planning with the cycle error; no node runs, no   *)
(* status is sent.                                                         *)
(***************************************************************************)
C4_ReachableCycleFails ==
    (pc # "start" /\ event.workflowId = StoredWorkflowId
        /\ \E n \in MainReachable : OnMainCycle(n))
    => PlanningFailedOnCycle

\* planning has failed on a cycle of two nodes that a trigger reaches
C4_Witness ==
    /\ PlanningFailedOnCycle
    /\ \E a, b \in MainReachable : a # b /\ <<a, b>> \in MainEdges /\ <<b, a>> \in MainEdges

(***************************************************************************)
(* C5: a workflow without a trigger node plans to the empty list, runs no  *)
(* executor and completes with the initial context.                        *)
(***************************************************************************)
C5_NoTriggerNoOp ==
    (pc # "start" /\ event.workflowId = StoredWorkflowId /\ TriggerIds = {}) =>
        /\ pc \in {"loop", "done"}
        /\ sortedNodes = <<>>
        /\ trace = <<>>
        /\ events = <<>>
        /\ context = ExpectedInitial

\* a run over stored nodes, none a trigger, has completed with the initial data
C5_Witness ==
    /\ pc = "done"
    /\ TriggerIds = {}
    /\ nodes # <<>>
    /\ event.initialData.given
    /\ context = event.initialData.value

(***************************************************************************)
(* C6: the mapping an executor returns holds every key of the context it   *)
(* was given, and the next executor is given exactly that mapping.         *)
(***************************************************************************)
C6_ContextCarried ==
    \A k \in 2..Len(trace) :
        /\ trace[k].what = "return" =>
              /\ trace[k - 1].what = "start"
              /\ trace[k - 1].nodeId = trace[k].nodeId
              /\ DOMAIN trace[k - 1].context \subseteq DOMAIN trace[k].context
        /\ (trace[k].what = "start" /\ trace[k - 1].what = "return") =>
              trace[k].context = trace[k - 1].context

\* a second executor was given a non-empty context and has added a key to it
C6_Witness ==
    /\ Len(trace) >= 4
    /\ trace[3].what = "start"
    /\ trace[4].what = "return"
    /\ trace[3].context # EmptyContext
    /\ DOMAIN trace[4].context # DOMAIN trace[3].context

(***************************************************************************)
(* C7: every executor call that has ended has sent exactly one loading     *)
(* status for its node, and after it exactly one success or error status.  *)
(***************************************************************************)
C7_OneLoadingOneTerminal ==
    \A k \in 1..Len(trace) :
        trace[k].what \in {"return", "throw"} =>
            LET id == trace[k].nodeId
            IN /\ CountOf(id, {"loading"}) = 1
               /\ CountOf(id, {"success", "error"}) = 1
               /\ \A i, j \in 1..Len(events) :
                     (events[i].nodeId = id /\ events[j].nodeId = id
                         /\ events[i].status = "loading" /\ events[j].status # "loading") => i < j

(***************************************************************************)
(* C8: executors run one at a time in plan order: each start follows the   *)
(* end of the executor before it, and the k-th to start is the k-th node   *)
(* of the plan.                                                            *)
(***************************************************************************)
C8_Sequential ==
    /\ \A k \in 1..Len(trace) :
          IF k % 2 = 1
          THEN /\ trace[k].what = "start"
               /\ (k + 1) \div 2 <= Len(planIds)
               /\ trace[k].nodeId = planIds[(k + 1) \div 2]
               /\ k > 1 => trace[k - 1].what = "return"
          ELSE /\ trace[k].what \in {"return", "throw"}
               /\ trace[k].nodeId = trace[k - 1].nodeId
    /\ (pc = "exec") = (Len(trace) % 2 = 1)

\* a second executor is awaited after the first has returned
C8_Witness ==
    /\ pc = "exec"
    /\ Len(trace) = 3
    /\ trace[1].nodeId # trace[3].nodeId
    /\ exec.nodeId = trace[3].nodeId

(***************************************************************************)
(* C9: when the executor of a node throws, an error status is sent for     *)
(* that node, the run fails with the error, and no later node starts or    *)
(* sends a status.                                                         *)
(***************************************************************************)
C9_ThrowEmitsError ==
    (Len(trace) > 0 /\ trace[Len(trace)].what = "throw") =>
        LET id == trace[Len(trace)].nodeId
        IN /\ pc = "failed"
           /\ error # NoError
           /\ CountOf(id, {"error"}) = 1
           /\ \A k \in 1..Len(events) :
                 events[k].nodeId \in {trace[i].nodeId : i \in 1..Len(trace)}

(***************************************************************************)
(* C10: a run that is entered again does not repeat the external work of a *)
(* node whose step an earlier attempt completed, and it ends with the      *)
(* context that one uninterrupted run with the same answers ends with.     *)
(***************************************************************************)
AnswerOf(id) == calls[CHOOSE k \in 1..Len(calls) : calls[k].nodeId = id].answer

\* the context after the first k nodes of the plan, from the answers alone
RECURSIVE ExpectedAfter(_)
ExpectedAfter(k) ==
    IF k = 0 THEN ExpectedInitial
    ELSE LET n == sortedNodes[k]
             before == ExpectedAfter(k - 1)
         IN CASE n.type = "HTTP_REQUEST" ->
                     (n.data.variableName :>
                         [httpResponce |-> [status |-> 200, statusText |-> "OK",
                                            data |-> AnswerOf(n.id)]]) @@ before
              [] n.type = "GEMINI" ->
                     (n.data.variableName :> [aiResponse |-> AnswerOf(n.id)]) @@ before
              [] OTHER -> before

C10_ReplayAgrees ==
    /\ \A i, j \in 1..Len(calls) : i # j => calls[i].nodeId # calls[j].nodeId
    /\ pc = "done" => context = ExpectedAfter(Len(sortedNodes))

\* a second attempt has completed a run of two HTTP requests, the first of
\* which was answered in the first attempt
C10_Witness ==
    /\ pc = "done"
    /\ attempt = 2
    /\ Len(calls) >= 2
    /\ calls[1].attempt = 1
    /\ calls[2].attempt = 2
    /\ {calls[1].nodeId, calls[2].nodeId} = {"H", "H2"}

(***************************************************************************)
(* C11: after a run that completes, the history an agent with a memory     *)
(* sub-node has stored under its memory key holds at most 2 x windowSize   *)
(* turns, and its last two turns are the user turn with the prompt of the  *)
(* run as it was rendered and the assistant turn with the answer.          *)
(***************************************************************************)
storedHistory == context[memoryKey("A")].turns

C11_HistoryBounded ==
    (pc = "done" /\ "A" \in Range(planIds) /\ hasMemory("A")) =>
        /\ memoryKey("A") \in DOMAIN context
        /\ Len(storedHistory) <= 2 * windowSize("A")
        /\ Len(storedHistory) >= 2
        /\ storedHistory[Len(storedHistory) - 1] =
              [role |-> "user", content |-> <<Prompts[run]>>]
        /\ storedHistory[Len(storedHistory)] =
              [role |-> "assistant", content |-> <<calls[Len(calls)].answer>>]

\* a run handed three turns of history has completed with a window of one
C11_Witness ==
    /\ pc = "done"
    /\ run = 1
    /\ Len(conversation) = 3
    /\ windowSize("A") = 1
    /\ Len(storedHistory) = 2

(***************************************************************************)
(* C12: after the n-th run in sequence the stored history is the last      *)
(* 2 x windowSize turns of the whole conversation, all of it when it is    *)
(* shorter; started from no history, it holds min(2n, 2 x windowSize)      *)
(* turns.                                                                  *)
(***************************************************************************)
C12_SlidingWindow ==
    (pc = "done" /\ "A" \in Range(planIds) /\ hasMemory("A")) =>
        LET whole == conversation \o turnsOfRun
            kept == 2 * windowSize("A")
        IN /\ storedHistory =
                 IF Len(whole) <= kept THEN whole
                 ELSE [i \in 1..kept |-> whole[Len(whole) - kept + i]]
           /\ Len(whole) = 2 * run =>
                 Len(storedHistory) = IF 2 * run <= kept THEN 2 * run ELSE kept

\* the third run with a window of two, started from no history: four turns,
\* those of the second and the third prompt
C12_Witness ==
    /\ pc = "done"
    /\ run = 3
    /\ windowSize("A") = 2
    /\ Len(conversation) = 4
    /\ Len(storedHistory) = 4
    /\ storedHistory[1].content = <<"p2">>
    /\ storedHistory[3].content = <<"p3">>

(***************************************************************************)
(* C13: the update_order_status tool writes no order of another            *)
(* organization than that of the agent's workflow, whether the executor    *)
(* resolved the organization or not, and answers a call for such an order  *)
(* with the error that the order was not found.                            *)
(***************************************************************************)
foreignOrder(orderId) ==
    /\ isNumeric(orderId)
    /\ BigInt(orderId) \in DOMAIN Orders
    /\ Orders[BigInt(orderId)].org_id # WorkflowOrg

C13_NoCrossTenantWrite ==
    /\ \A id \in DOMAIN db.orders :
          db.orders[id].org_id # WorkflowOrg => db.orders[id].status = Orders[id].status
    /\ \A k \in 1..Len(steps) :
          (steps[k].tool = "update_order_status" /\ foreignOrder(steps[k].input))
              => steps[k].result[1] = "Error: Order #"

(***************************************************************************)
(* C14: the calculator tool gives nothing to the evaluator, and returns    *)
(* its validation error, for an expression that holds an identifier other  *)
(* than PI, E, sqrt, sin, cos, tan, log, abs, round, ceil, floor and pow   *)
(* (Math, which the tool's own description writes before them, is let be). *)
(***************************************************************************)
AllowedIdentifiers ==
    {<<"P", "I">>,
    <<"E">>,
    <<"s", "q", "r", "t">>,
    <<"s", "i", "n">>,
    <<"c", "o", "s">>,
    <<"t", "a", "n">>,
    <<"l", "o", "g">>,
    <<"a", "b", "s">>,
    <<"r", "o", "u", "n", "d">>,
    <<"c", "e", "i", "l">>,
    <<"f", "l", "o", "o", "r">>,
    <<"p", "o", "w">>}

isIdentifier(token) == token[1] \in Letters \/ token[1] = "_"

holdsOtherIdentifier(expression) ==
    \E i \in 1..Len(tokensOf(expression)) :
        /\ isIdentifier(tokensOf(expression)[i])
        /\ tokensOf(expression)[i] \notin AllowedIdentifiers \cup {<<"M", "a", "t", "h">>}

C14_CalculatorRejects ==
    \A k \in 1..Len(steps) :
        (steps[k].tool = "calculator" /\ holdsOtherIdentifier(steps[k].input)) =>
            /\ steps[k].evaluated = <<>>
            /\ steps[k].result = <<"Error: Expression contains unsafe characters.">>

(***************************************************************************)
(* C15: an agent that has no chat model sub-node, or one without provider, *)
(* without credential, or with a credential that has no row or does not    *)
(* decrypt, fails with a non-retriable error; the model is not called and  *)
(* no context is returned.                                                 *)
(***************************************************************************)
chatModelOf(id) ==
    LET into == {k \in 1..Len(connections) :
                    connections[k].toNodeId = id /\ connections[k].toInput = "chat-model-target"}
    IN IF into = {} THEN ""
       ELSE connections[CHOOSE k \in into : \A j \in into : j <= k].fromNodeId

modelUnusable(id) ==
    \/ chatModelOf(id) = ""
    \/ LET d == nodeOf(chatModelOf(id)).data
       IN \/ "provider" \notin DOMAIN d
          \/ d.provider = ""
          \/ d.credentialId \in {"", "bad", "gone"}

C15_NoModelFailsEarly ==
    \A k \in 1..Len(trace) :
        (trace[k].what = "start" /\ TypeOf(trace[k].nodeId) = "AI_AGENT"
            /\ modelUnusable(trace[k].nodeId)) =>
            /\ pc = "failed"
            /\ k + 1 = Len(trace)
            /\ trace[k + 1] = [nodeId |-> trace[k].nodeId, what |-> "throw",
                               context |-> EmptyContext]
            /\ error.name = "NonRetriableError"
            /\ \A i \in 1..Len(calls) : calls[i].nodeId # trace[k].nodeId

\* a configured agent has failed on a chat model whose credential does not decrypt
C15_Witness ==
    /\ pc = "failed"
    /\ error.message = "AI Agent: Chat Model has no API key configured"
    /\ chatModelOf("A") = "CM"
    /\ nodeOf("CM").data.credentialId = "bad"

(***************************************************************************)
(* C16: once the agent has left, by returning or by throwing, it and every *)
(* sub-node it discovered have a loading status, and the nodes that have a *)
(* success or error status are exactly the nodes that have a loading one.  *)
(***************************************************************************)
statusSet(ids, statuses) ==
    {id \in ids : \E k \in 1..Len(events) :
                      events[k].nodeId = id /\ events[k].status \in statuses}

agentLeft(id) ==
    \E k \in 1..Len(trace) : trace[k].nodeId = id /\ trace[k].what \in {"return", "throw"}

C16_StatusFanOut ==
    \A k \in 1..Len(nodes) :
        (nodes[k].type = "AI_AGENT" /\ agentLeft(nodes[k].id)) =>
            LET family == {nodes[k].id} \cup Range(subNodesOf(nodes[k].id))
            IN /\ nodes[k].id \in statusSet(family, {"loading"})
               /\ statusSet(family, {"success", "error"}) = statusSet(family, {"loading"})

firstUnregistered ==
    LET at == {k \in 1..Len(sortedNodes) : ~registered(sortedNodes[k].type)}
    IN IF at = {} THEN 0 ELSE CHOOSE k \in at : \A j \in at : k <= j

\* no executor is called at or after place k of the plan
noneCalledFrom(k) ==
    \A i \in 1..Len(trace) : \A j \in k..Len(sortedNodes) : trace[i].nodeId # sortedNodes[j].id

\* the run has failed there, nothing was called from there on, and the error
\* is non-retriable
C18_UnknownKindNonRetriable ==
    (pc = "failed" /\ firstUnregistered # 0 /\ idx = firstUnregistered
        /\ noneCalledFrom(firstUnregistered) /\ error.message = "No executor found for node type")
        => error.name = "NonRetriableError"

(***************************************************************************)
(* C19: when an executor returns nothing, the context the driver holds     *)
(* afterwards is the context that executor was given, and the next node    *)
(* is given that context.                                                  *)
(***************************************************************************)
C19_NothingKeepsContext ==
    \A k \in 2..Len(trace) :
        (trace[k].what = "return" /\ trace[k].context = Nothing
            /\ trace[k - 1].context # Nothing) =>
            /\ k = Len(trace) => context = trace[k - 1].context
            /\ k < Len(trace) => trace[k + 1].context = trace[k - 1].context

(***************************************************************************)
(* C20: an HTTP_REQUEST node whose body is {"id":"{{r.httpResponse.data.id}}"} *)
(* and that runs after the node that stores under r was answered           *)
(* {"id":"abc"} sends the body {"id":"abc"}.                               *)
(***************************************************************************)
C20_BodyResolved ==
    \A k \in 1..Len(calls) :
        (/\ calls[k].nodeId = "H2"
         /\ nodeOf("H2").data.body = "{\"id\":\"{{r.httpResponse.data.id}}\"}"
         /\ \E j \in 1..(k - 1) : calls[j].nodeId = "H" /\ calls[j].answer = [id |-> "abc"])
            => calls[k].request.json = <<"{\"id\":\"", "abc", "\"}">>

(***************************************************************************)
(* C21: no provider is called with the secret of a credential that another *)
(* organization than the workflow's owns.                                  *)
(***************************************************************************)
\* the keys that credentials of other organizations decrypt to
foreignKeys ==
    {decrypt(Credentials[c]) : c \in {c \in DOMAIN Credentials :
                                         CredentialOrgs[c] # 1 /\ ~decryptThrows(Credentials[c])}}

C21_NoForeignCredential ==
    \A k \in 1..Len(calls) :
        "apiKey" \in DOMAIN calls[k] => calls[k].apiKey \notin foreignKeys

(***************************************************************************)
(* C22: an expression built only from digits, + - * / %, parentheses,      *)
(* commas, decimal points, whitespace, PI, E and the bare function names   *)
(* is accepted by the calculator and evaluated.                            *)
(***************************************************************************)
isAllowedToken(token) ==
    IF isIdentifier(token) THEN token \in AllowedIdentifiers
    ELSE \A i \in 1..Len(token) :
            isDigit(token[i]) \/ token[i] \in {"+", "-", "*", "/", "%", "(", ")", ",", ".", " "}

builtFromAllowed(expression) ==
    \A i \in 1..Len(tokensOf(expression)) : isAllowedToken(tokensOf(expression)[i])

C22_CalculatorAccepts ==
    \A k \in 1..Len(steps) :
        (steps[k].tool = "calculator" /\ builtFromAllowed(steps[k].input)) =>
            /\ steps[k].evaluated # <<>>
            /\ steps[k].result # <<"Error: Expression contains unsafe characters.">>

(***************************************************************************)
(* C23: the messages the agent gives the model are the last windowSize     *)
(* turns of the history that the context held under the memory key when    *)
(* the agent was entered, in their order, and then one user turn with the  *)
(* rendered prompt; the window is 10 and the key "chatHistory" when the    *)
(* memory sub-node sets none.                                              *)
(***************************************************************************)
\* the context the agent was entered with in this run
contextAtEntry(id) ==
    trace[CHOOSE k \in 1..Len(trace) : trace[k].nodeId = id /\ trace[k].what = "start"].context

configuredKey == IF nodeOf("M").data.memoryKey = "" THEN "chatHistory" ELSE nodeOf("M").data.memoryKey
configuredWindow == IF nodeOf("M").data.windowSize = 0 THEN 10 ELSE nodeOf("M").data.windowSize

historyAtEntry ==
    IF configuredKey \in DOMAIN contextAtEntry("A") THEN contextAtEntry("A")[configuredKey].turns ELSE <<>>

C23_MessagesSent ==
    \A k \in 1..Len(calls) :
        calls[k].nodeId = "A" =>
            LET given == calls[k].request
                h == historyAtEntry
                n == IF Len(h) <= configuredWindow THEN Len(h) ELSE configuredWindow
            IN /\ Len(given) = n + 1
               /\ \A i \in 1..n : given[i] = h[Len(h) - n + i]
               /\ given[n + 1] = [role |-> "user", content |-> <<Prompts[run]>>]

\* the model was called with one turn of a history of three, and the prompt
C23_Witness ==
    /\ Len(calls) = 1
    /\ calls[1].nodeId = "A"
    /\ Len(historyAtEntry) = 3
    /\ configuredWindow = 1
    /\ Len(calls[1].request) = 2

(***************************************************************************)
(* C24: the toolCallCount an agent writes is between 0 and maxIterations   *)
(* - 1 (9 when maxIterations is not set); an agent with maxIterations 1    *)
(* and no tool sub-node calls the model once and writes toolCallCount 0.   *)
(***************************************************************************)
configuredLimit ==
    IF nodeOf("A").data.maxIterations = 0 THEN 10 ELSE nodeOf("A").data.maxIterations

noToolNodes == \A k \in 1..Len(connections) : connections[k].toInput # "tool-target"

C24_ToolCallCount ==
    (pc = "done" /\ "a" \in DOMAIN context) =>
        /\ context["a"].toolCallCount \in 0..(configuredLimit - 1)
        /\ (configuredLimit = 1 /\ noToolNodes) =>
               /\ context["a"].toolCallCount = 0
               /\ steps = <<>>
               /\ Cardinality({k \in 1..Len(calls) : calls[k].nodeId = "A"}) = 1

\* an agent with maxIterations 1 and no tools has completed
C24_Witness ==
    /\ pc = "done"
    /\ "a" \in DOMAIN context
    /\ configuredLimit = 1
    /\ noToolNodes
    /\ context["a"].toolCallCount = 0

(***************************************************************************)
(* C25: while an executor runs and after it has thrown, the context it was *)
(* given is as it was given; the mapping a successful call returns has the *)
(* keys of the given context and the keys the node writes, and under every *)
(* other key the value that was given.                                     *)
(***************************************************************************)
\* the keys a node of the stored workflow writes
newKeys(id) ==
    LET n == nodeOf(id)
    IN CASE n.type \in {"HTTP_REQUEST", "GEMINI"} -> {n.data.variableName}
         [] n.type = "AI_AGENT" ->
               {n.data.variableName}
                   \cup (IF \E k \in 1..Len(connections) :
                               connections[k].toNodeId = id /\ connections[k].toInput = "memory-target"
                         THEN {"chatHistory"} ELSE {})
         [] OTHER -> {}

lastStart == CHOOSE k \in 1..Len(trace) :
                /\ trace[k].what = "start"
                /\ \A j \in (k + 1)..Len(trace) : trace[j].what # "start"

C25_InputUnchanged ==
    /\ (pc = "exec" \/ (pc = "failed" /\ trace # <<>> /\ trace[Len(trace)].what = "throw"))
          => context = trace[lastStart].context
    /\ \A k \in 2..Len(trace) :
          trace[k].what = "return" =>
             LET given == trace[k - 1].context
                 out == trace[k].context
                 id == trace[k].nodeId
             IN /\ DOMAIN out = DOMAIN given \cup newKeys(id)
                /\ \A key \in DOMAIN given \ newKeys(id) : out[key] = given[key]

\* an agent given a history has failed in its generation step
C25_Witness ==
    /\ pc = "failed"
    /\ error.name = "APICallError"
    /\ "chatHistory" \in DOMAIN context
    /\ Len(context["chatHistory"].turns) = 1

C27_ReadsOwnOrganization ==
    \A k \in 1..Len(steps) :
        steps[k].tool = "search_orders" =>
            \A id \in steps[k].rows : Orders[id].org_id = WorkflowOrg

(***************************************************************************)
(* An agent with several tool nodes: two calculators, two HTTP requests   *)
(* that share a variable name, one HTTP request without a name, and an    *)
(* order manager.                                                          *)
(***************************************************************************)
toolSetNodes ==
    toolNodes(2)
    \o <<[id |-> "K2", type |-> "CALCULATOR", data |-> configuredData("K2")],
         [id |-> "W1", type |-> "HTTP_REQUEST",
          data |-> [variableName |-> "fetch", endpoint |-> "", userPrompt |-> ""]],
         [id |-> "W2", type |-> "HTTP_REQUEST",
          data |-> [variableName |-> "fetch", endpoint |-> "", userPrompt |-> ""]],
         [id |-> "W3", type |-> "HTTP_REQUEST", data |-> configuredData("W3")]>>

ToolSets == {<<"K">>, <<"K", "K2">>, <<"W1", "W2">>, <<"W1", "W3">>, <<"O", "K", "W3">>,
             <<"O", "K2", "W2", "K">>}

InitToolSet ==
    /\ event = [workflowId |-> StoredWorkflowId,
                initialData |-> [given |-> FALSE, value |-> EmptyContext]]
    /\ nodes = toolSetNodes
    /\ \E toolIds \in ToolSets : connections = toolConnections(toolIds)
    /\ db = [orgId |-> WorkflowOrg, orders |-> Orders]
    /\ run = 1
    /\ conversation = <<>>
    /\ Fresh
    /\ sessions = NoSessions

SpecToolSet == InitToolSet /\ [][NextTools]_vars

(***************************************************************************)
(* updateWorkflowNodes: the editor saves a workflow with four statements   *)
(* that are awaited in turn, and other calls of the store run between      *)
(* them: a second save of the same workflow, and the sub-node discovery of *)
(* an agent that is running.                                               *)
(***************************************************************************)
MaxSaves == 2

\* what the editor sends: nodes and the edges it has drawn between them
Drawings ==
    {[nodes |-> <<[id |-> "A", data |-> [label |-> ""]], [id |-> "CM", data |-> [label |-> ""]]>>,
      edges |-> <<[id |-> "e1", source |-> "CM", target |-> "A",
                   sourceHandle |-> "", targetHandle |-> "chat-model-target"]>>],
     [nodes |-> <<[id |-> "A", data |-> [label |-> ""]], [id |-> "K", data |-> [label |-> "Calc"]]>>,
      edges |-> <<[id |-> "e2", source |-> "K", target |-> "A",
                   sourceHandle |-> "", targetHandle |-> "tool-target"]>>],
     [nodes |-> <<[id |-> "B", data |-> [label |-> ""]], [id |-> "T", data |-> [label |-> ""]]>>,
      edges |-> <<[id |-> "e3", source |-> "T", target |-> "B",
                   sourceHandle |-> "", targetHandle |-> ""]>>],
     [nodes |-> <<[id |-> "A", data |-> [label |-> ""]]>>, edges |-> <<>>]}

\* the row createMany writes for a node of the editor
nodeRow(workflowId, n) ==
    [id |-> n.id, workflowId |-> workflowId,
     name |-> IF n.data.label # "" THEN n.data.label ELSE "Node",
     type |-> "INITIAL", data |-> n.data]

\* the row createMany writes for an edge of the editor
connectionRow(workflowId, e) ==
    [id |-> e.id, workflowId |-> workflowId, fromNodeId |-> e.source, toNodeId |-> e.target,
     fromOutput |-> IF e.sourceHandle # "" THEN e.sourceHandle ELSE "main",
     toInput |-> IF e.targetHandle # "" THEN e.targetHandle ELSE "main"]

nodeRows(workflowId, d) == [i \in 1..Len(d.nodes) |-> nodeRow(workflowId, d.nodes[i])]
connectionRows(workflowId, d) == [i \in 1..Len(d.edges) |-> connectionRow(workflowId, d.edges[i])]

\* rows of the other workflows
notOf(workflowId, rows) ==
    LET other(row) == row.workflowId # workflowId IN SelectSeq(rows, other)

heldIds(rows) == {rows[i].id : i \in 1..Len(rows)}

\* what a save and the discovery leave alone
handlerState == <<event, pc, sortedNodes, idx, context, exec, events, error, trace, memo, seen,
                  published, attempt, calls, run, conversation, db, steps>>

\* prisma.connection.deleteMany({ where: { workflowId } })
DeleteConnections ==
    \E s \in DOMAIN sessions.saves :
        /\ sessions.saves[s].at = "called"
        /\ connections' = notOf(sessions.saves[s].workflowId, connections)
        /\ sessions' = [sessions EXCEPT !.saves[s].at = "connections deleted"]
        /\ UNCHANGED <<nodes, handlerState>>

\* prisma.node.deleteMany({ where: { workflowId } })
DeleteNodes ==
    \E s \in DOMAIN sessions.saves :
        /\ sessions.saves[s].at = "connections deleted"
        /\ nodes' = notOf(sessions.saves[s].workflowId, nodes)
        /\ sessions' = [sessions EXCEPT !.saves[s].at = "nodes deleted"]
        /\ UNCHANGED <<connections, handlerState>>

\* prisma.node.createMany: no row is written when one of the ids is held
CreateNodes ==
    \E s \in DOMAIN sessions.saves :
        LET rows == nodeRows(sessions.saves[s].workflowId, sessions.saves[s].drawing)
        IN /\ sessions.saves[s].at = "nodes deleted"
           /\ IF heldIds(rows) \cap heldIds(nodes) # {}
              THEN /\ sessions' = [sessions EXCEPT !.saves[s].at = "threw"]
                   /\ UNCHANGED nodes
              ELSE /\ nodes' = nodes \o rows
                   /\ sessions' = [sessions EXCEPT !.saves[s].at = "nodes created"]
           /\ UNCHANGED <<connections, handlerState>>

\* if (edges.length > 0) prisma.connection.createMany; return { success: true }
CreateConnections ==
    \E s \in DOMAIN sessions.saves :
        LET rows == connectionRows(sessions.saves[s].workflowId, sessions.saves[s].drawing)
        IN /\ sessions.saves[s].at = "nodes created"
           /\ IF heldIds(rows) \cap heldIds(connections) # {}
              THEN /\ sessions' = [sessions EXCEPT !.saves[s].at = "threw"]
                   /\ UNCHANGED connections
              ELSE /\ connections' = connections \o rows
                   /\ sessions' = [sessions EXCEPT !.saves[s].at = "returned"]
           /\ UNCHANGED <<nodes, handlerState>>

\* prisma.node.findUnique({ where: { id: nodeId }, include: { workflow } })
FindAgentNode ==
    /\ sessions.discovery.at = "called"
    /\ sessions' = [sessions EXCEPT !.discovery.at = "agent read",
                                    !.discovery.agentFound = "A" \in heldIds(nodes)]
    /\ UNCHANGED <<nodes, connections, handlerState>>

\* prisma.connection.findMany({ where: { toNodeId: nodeId } })
FindConnections ==
    LET intoAgent(c) == c.toNodeId = "A"
    IN /\ sessions.discovery.at = "agent read"
       /\ sessions' = [sessions EXCEPT !.discovery.at = "connections read",
                                       !.discovery.connections = SelectSeq(connections, intoAgent)]
       /\ UNCHANGED <<nodes, connections, handlerState>>

\* one turn of the loop over the connections that were read
FindSubNode ==
    /\ sessions.discovery.connections # <<>>
    /\ LET conn == Head(sessions.discovery.connections)
           found == conn.fromNodeId \in heldIds(nodes)
           rest == [sessions.discovery EXCEPT !.connections = Tail(@)]
       IN /\ sessions.discovery.at = "connections read"
          /\ sessions' =
                [sessions EXCEPT !.discovery =
                    CASE conn.toInput = "chat-model-target" ->
                            [rest EXCEPT !.chatModelNodeId = IF found THEN conn.fromNodeId ELSE @]
                      [] conn.toInput = "memory-target" ->
                            [rest EXCEPT !.memoryNodeId = IF found THEN conn.fromNodeId ELSE @]
                      [] conn.toInput = "tool-target" ->
                            [rest EXCEPT !.toolNodeIds = Append(@, conn.fromNodeId)]
                      [] OTHER -> rest]
    /\ UNCHANGED <<nodes, connections, handlerState>>

\* a workflow as a save has left it, saves that were called and an agent
\* that begins to look for its sub-nodes
InitSave ==
    /\ event = [workflowId |-> StoredWorkflowId,
                initialData |-> [given |-> FALSE, value |-> EmptyContext]]
    /\ \E d \in Drawings :
          /\ nodes = nodeRows(StoredWorkflowId, d)
          /\ connections = connectionRows(StoredWorkflowId, d)
    /\ Fresh
    /\ Unrun
    /\ \E n \in 1..MaxSaves :
          \E ds \in [1..n -> Drawings] :
             sessions = [saves |-> [s \in 1..n |-> [at |-> "called", workflowId |-> StoredWorkflowId,
                                                   drawing |-> ds[s]]],
                         discovery |-> [NoDiscovery EXCEPT !.at = "called"]]

NextSave ==
    \/ DeleteConnections
    \/ DeleteNodes
    \/ CreateNodes
    \/ CreateConnections
    \/ FindAgentNode
    \/ FindConnections
    \/ FindSubNode

SpecSave == InitSave /\ [][NextSave]_vars

(***************************************************************************)
(* C28: after a run that completes, the context holds the agent's answer   *)
(* and tool call count under the agent's variable name, whatever the       *)
(* memory sub-node is configured with, its memory key being the agent's    *)
(* variable name included.                                                 *)
(***************************************************************************)
C28_AnswerUnderVariable ==
    pc = "done" =>
        /\ nodeOf("A").data.variableName \in DOMAIN context
        /\ DOMAIN context[nodeOf("A").data.variableName] = {"agentResponse", "toolCallCount"}

(***************************************************************************)
(* C29: every tool sub-node of an agent contributes its own descriptor to  *)
(* the tools the model is given: for any set of tool nodes, two of the     *)
(* same kind or two HTTP requests with the same variable name included,    *)
(* every key a node assigns still holds the descriptor built for that node.*)
(***************************************************************************)
agentHasBuiltTools == \E k \in 1..Len(trace) : trace[k].nodeId = "A" /\ trace[k].what = "start"

C29_EveryDescriptorKept ==
    agentHasBuiltTools =>
        LET tools == buildToolsFromNodes(toolNodesOf("A"))
        IN \A i \in 1..Len(toolNodesOf("A")) :
              \A name \in DOMAIN descriptorsOf(toolNodesOf("A")[i]) :
                  tools[name].node = toolNodesOf("A")[i].id

(***************************************************************************)
(* C30: while updateWorkflowNodes saves a workflow, also when two saves of *)
(* the workflow or a save and an agent's sub-node discovery interleave,    *)
(* the endpoints of every stored connection are stored nodes of the        *)
(* connection's workflow, and once no save is under way and one has        *)
(* returned the stored nodes and connections are those of one save that    *)
(* returned.                                                               *)
(***************************************************************************)
endpointStored(c, id) ==
    \E i \in 1..Len(nodes) : nodes[i].id = id /\ nodes[i].workflowId = c.workflowId

savesAt(ats) == {s \in DOMAIN sessions.saves : sessions.saves[s].at \in ats}

leftBy(s) ==
    /\ Range(nodes) = Range(nodeRows(sessions.saves[s].workflowId, sessions.saves[s].drawing))
    /\ Range(connections) =
          Range(connectionRows(sessions.saves[s].workflowId, sessions.saves[s].drawing))

C30_SavesKeepStoreWhole ==
    /\ \A i \in 1..Len(connections) :
          /\ endpointStored(connections[i], connections[i].fromNodeId)
          /\ endpointStored(connections[i], connections[i].toNodeId)
    /\ (savesAt({"returned", "threw"}) = DOMAIN sessions.saves /\ savesAt({"returned"}) # {})
          => \E s \in savesAt({"returned"}) : leftBy(s)

====
